---- MODULE Spec2Model ----
(***************************************************************************)
(* Model of gokrazy/fbstatus: the virtual-console lease of                 *)
(* internal/console (LeaseForGraphics, handleSwitches, the two signal      *)
(* handler goroutines, Cleanup) and the render loop of fbstatus().         *)
(*                                                                         *)
(* The main flow is one process whose position is pc; the SIGUSR1 and      *)
(* SIGUSR2 handler goroutines are two more processes (h1pc, h2pc).  The    *)
(* kernel's virtual-terminal layer, the interrupt signal and the ticker    *)
(* are the environment.  Every system call of the main flow may fail.      *)
(***************************************************************************)
EXTENDS Integers, Sequences, FiniteSets, TLC

\* Bounds of the model.
MaxVT == 2          \* virtual terminals 1..MaxVT
MaxSwitch == 2      \* release requests the kernel sends
MaxRes == 2         \* resolutions 0..MaxRes
MaxOff == 1         \* offsets 0..MaxOff
MaxDraws == 12      \* draw1 calls of one drawer

\* make(chan struct{}, 1): capacity of the redraw channel.
RedrawCap == 1
\* make(chan os.Signal, 1): capacity of each signal channel.
SigChanCap == 1
\* make([][][]string, 10): rows of the scrollback window.
ScrollbackLen == 10

VTs == 1..MaxVT

VARIABLES
    pc,             \* position of the main flow (fbstatus)
    err,            \* error fbstatus returns ("none": nil)
    leaseRet,       \* what LeaseForGraphics returned: "pending", "nil", "hdl"
    leaseOps,       \* operations LeaseForGraphics has issued, in order
    cleanupOps,     \* operations Cleanup has issued, in order
    failedStep,     \* the operation of LeaseForGraphics that failed
    cleanupErr,     \* error Cleanup returns ("none": nil)
    free,           \* local: result of nextFreeConsole
    stActive,       \* local: state.Active read by VT_GETSTATE
    hdlVt,          \* Handle.vt      (0: no handle yet)
    hdlPrevVT,      \* Handle.prevVT  (0: no handle yet)
    visible,        \* Handle.visible
    lastSetBy,      \* who called setVisible last: "none", "main", "rel", "acq"
    redraw,         \* number of notifications buffered in Handle.redraw
    redrawClosed,   \* close(h.redraw) has run
    ttyOpen,        \* Handle.f is open
    notify1,        \* signal.Notify(usr1, SIGUSR1) is in effect
    notify2,        \* signal.Notify(usr2, SIGUSR2) is in effect
    usr1,           \* signals buffered in the usr1 channel
    usr2,           \* signals buffered in the usr2 channel
    h1pc,           \* position of the SIGUSR1 goroutine
    h2pc,           \* position of the SIGUSR2 goroutine
    h1set,          \* this run of the SIGUSR1 handler has called setVisible(false)
    acqRuns,        \* completed SIGUSR2 handler runs since the loop last received
    kActive,        \* kernel: the active terminal
    kAllocated,     \* kernel: the allocated terminals
    kMode,          \* kernel: switch mode of the leased terminal
    kKd,            \* kernel: KD mode of the leased terminal
    kRelPending,    \* kernel: release signal sent, VT_RELDISP awaited
    kTarget,        \* kernel: terminal the pending switch goes to
    switches,       \* release requests sent so far
    cancelled,      \* the context of signal.NotifyContext is done
    tickReady,      \* the ticker channel holds a tick
    obs,            \* result of the Visible() call of this loop iteration
    lastDraw,       \* the latest draw1 call: "none", "inflight", "copied", "error"
    relMidDraw,     \* a release was acknowledged during the draw1 in progress
    cleanupCalls,   \* calls of Handle.Cleanup
    switchBackConfirmed, \* Cleanup's VT_WAITACTIVE(prevVT) has succeeded
    panicked,       \* the process died of a runtime panic or a fatal signal
    finfo,          \* kernel: the fixed geometry of /dev/fb0 (FBIOGET_FSCREENINFO)
    vinfo,          \* kernel: the variable geometry of /dev/fb0 (FBIOGET_VSCREENINFO)
    devFd,          \* descriptor of fb.Open: "none", "open", "closed"
    devMmap,        \* length of the mapping of Device.mmap (-1: nothing mapped)
    openRet,        \* what fb.Open returned: "pending", "dev", or the error
    img,            \* the surface Device.Image returned (Nil: none)
    imgErr,         \* the error Device.Image returned ("pending", "nil", ...)
    closeRet,       \* the error Device.Close returned ("pending", "nil", ...)
    closeE1,        \* Device.Close: unix.Munmap failed
    pixQ,           \* the latest PixOffset call: <<x, y, offset>> (<<>>: none)
    mu,             \* holder of Handle.visibleMu ("none": unlocked)
    lpc,            \* per goroutine: position inside setVisible / Visible
    pix,            \* the mapped bytes of the device (Device.mmap), from 0
    buffer,         \* statusDrawer.buffer: Rect, Stride and Pix of the RGBA
    arg,            \* the pixel operation or copy asked for
    got,            \* what the latest pixel operation or copy returned
    last,           \* statusDrawer.last, a row being the number of its draw
    slowPathNotified, \* statusDrawer.slowPathNotified
    slowLogs,       \* times the slow-path warning has been logged
    draws,          \* draw1 calls that produced a row
    copyPath,       \* the copy routine the latest draw1 used
    drawRet         \* what the latest draw1 (or newStatusDrawer) returned

mainVars == <<pc, err, leaseRet, leaseOps, cleanupOps, failedStep, cleanupErr,
              free, stActive, cleanupCalls, switchBackConfirmed>>
hdlVars  == <<hdlVt, hdlPrevVT>>
visVars  == <<visible, lastSetBy>>
chanVars == <<redraw, redrawClosed>>
sigVars  == <<notify1, notify2, usr1, usr2>>
hVars    == <<h1pc, h2pc, h1set, acqRuns>>
kVars    == <<kActive, kAllocated, kMode, kKd, kRelPending, kTarget, switches>>
envVars  == <<cancelled, tickReady>>
drawVars == <<obs, lastDraw, relMidDraw>>

fbVars   == <<finfo, vinfo, devFd, devMmap, openRet, img, imgErr, closeRet,
              closeE1, pixQ>>
lockVars == <<mu, lpc>>
pixVars  == <<pix, buffer, arg, got>>
drawerVars == <<last, slowPathNotified, slowLogs, draws, copyPath, drawRet>>
auxVars  == <<fbVars, lockVars, pixVars, drawerVars>>

vars == <<mainVars, hdlVars, visVars, chanVars, sigVars, hVars, kVars,
          envVars, drawVars, ttyOpen, panicked, fbVars, lockVars, pixVars,
          drawerVars>>

Min(S) == CHOOSE x \in S : \A y \in S : x <= y

Range(s) == {s[i] : i \in 1..Len(s)}

IsPrefix(s, t) == Len(s) <= Len(t) /\ \A i \in 1..Len(s) : s[i] = t[i]

DrawPcs == {"D_read", "D_render", "D_copy"}

CleanupPcs == {"C_kdtext", "C_getmode", "C_setmode", "C_activate",
               "C_waitactive", "C_close", "C_closeredraw", "C_disalloc"}

\* The process runs until fbstatus returns (main then exits) or it panics.
Running == ~panicked /\ pc # "returned"

(***************************************************************************)
(* internal/fb: Open, Image, Close; internal/fbimage: PixOffset            *)
(***************************************************************************)

\* image.Rectangle and the surface types, as records.
ZR == [MinX |-> 0, MinY |-> 0, MaxX |-> 0, MaxY |-> 0]

\* image.Rect(x0, y0, x1, y1): the rectangle with corners (x0, y0) and
\* (x1, y1), the coordinates swapped where needed to make it well-formed.
Rect(x0, y0, x1, y1) ==
    [MinX |-> IF x0 > x1 THEN x1 ELSE x0,
     MinY |-> IF y0 > y1 THEN y1 ELSE y0,
     MaxX |-> IF x0 > x1 THEN x0 ELSE x1,
     MaxY |-> IF y0 > y1 THEN y0 ELSE y1]

\* Rectangle.Dx, Rectangle.Dy, Rectangle.Empty, Rectangle.In
Dx(r) == r.MaxX - r.MinX

Dy(r) == r.MaxY - r.MinY

Empty(r) == r.MinX >= r.MaxX \/ r.MinY >= r.MaxY

In(r, s) ==
    IF Empty(r) THEN TRUE
    ELSE /\ s.MinX <= r.MinX /\ r.MaxX <= s.MaxX
         /\ s.MinY <= r.MinY /\ r.MaxY <= s.MaxY

\* No surface, no error, and the errors of Device.Image.
Nil == [kind |-> "nil", Stride |-> 0, Rect |-> ZR]

NoErr == [kind |-> "nil", depth |-> 0]

Pending == [kind |-> "pending", depth |-> 0]

ImgError(k, d) == [kind |-> k, depth |-> d]

\* The branch of Device.Image for a supported depth of bytes bytes per pixel:
\* size check, containment check, then the surface of the kind given.
ImageOfDepth(mmapLen, fi, vi, bytes, kind) ==
    LET virtual == Rect(0, 0, vi.Xres_virtual, vi.Yres_virtual)
        visual  == Rect(vi.Xoffset, vi.Yoffset, vi.Xres, vi.Yres)
    IN  IF Dx(virtual) * Dy(virtual) * bytes # mmapLen
        THEN [img |-> Nil, err |-> ImgError("size", 0)]
        ELSE IF ~In(visual, virtual)
        THEN [img |-> Nil, err |-> ImgError("contained", 0)]
        ELSE [img |-> [kind |-> kind, Stride |-> fi.Line_length, Rect |-> visual],
              err |-> NoErr]

\* The branch of Device.Image after vinfo.Grayscale has been mutated to a
\* test for any non-zero value.
SurfaceKind16_AnyNonZero(vi) ==
    IF vi.Grayscale # 0 THEN "Gray16" ELSE "BGR565"

\* if vinfo.Grayscale == 1 { Gray16 } else { BGR565 }
SurfaceKind16(vi) ==
    IF vi.Grayscale = 1 THEN "Gray16" ELSE "BGR565"

\* Device.Image with the containment check made first.
ImageResult_ContainFirst(mmapLen, fi, vi, ioctlOk) ==
    LET virtual == Rect(0, 0, vi.Xres_virtual, vi.Yres_virtual)
        visual  == Rect(vi.Xoffset, vi.Yoffset, vi.Xres, vi.Yres)
    IN  IF ~ioctlOk THEN [img |-> Nil, err |-> ImgError("FBIOGET_VSCREENINFO", 0)]
        ELSE IF vi.Bits_per_pixel \in {16, 32} /\ ~In(visual, virtual)
        THEN [img |-> Nil, err |-> ImgError("contained", 0)]
        ELSE IF vi.Bits_per_pixel = 32
        THEN ImageOfDepth(mmapLen, fi, vi, 4, "BGRA")
        ELSE IF vi.Bits_per_pixel = 16
        THEN ImageOfDepth(mmapLen, fi, vi, 2, SurfaceKind16(vi))
        ELSE [img |-> Nil, err |-> ImgError("unsupported", vi.Bits_per_pixel)]

\* func (d *Device) Image() (draw.Image, error); ioctlOk: FBIOGET_VSCREENINFO
\* succeeded.
ImageResult(mmapLen, fi, vi, ioctlOk) ==
    IF ~ioctlOk THEN [img |-> Nil, err |-> ImgError("FBIOGET_VSCREENINFO", 0)]
    ELSE IF vi.Bits_per_pixel = 32
    THEN ImageOfDepth(mmapLen, fi, vi, 4, "BGRA")
    ELSE IF vi.Bits_per_pixel = 16
    THEN ImageOfDepth(mmapLen, fi, vi, 2, SurfaceKind16(vi))
    ELSE [img |-> Nil, err |-> ImgError("unsupported", vi.Bits_per_pixel)]

\* PixOffset with the visible width in place of the stride.
PixOffset_WidthStride(i, bytes, x, y) ==
    (y - i.Rect.MinY) * (Dx(i.Rect) * bytes) + (x - i.Rect.MinX) * bytes

\* BGR565.PixOffset (bytes = 2) and BGRA.PixOffset (bytes = 4)
PixOffset(i, bytes, x, y) ==
    (y - i.Rect.MinY) * i.Stride + (x - i.Rect.MinX) * bytes

\* The size in bytes of a pixel of a surface.
PixBytes(i) == IF i.kind = "BGRA" THEN 4 ELSE 2

\* The outcomes of fb.Open: the system call that fails, or "ok".
OpenOutcomes == {"open", "FBIOGET_FSCREENINFO", "mmap", "ok"}

\* fb.Open whose mmap error path returns without closing the descriptor.
Open_LeakOnMmapFail(o) ==
    /\ o = "ok" => finfo.Smem_len > 0
    /\ devFd' = IF o = "open" THEN devFd
                ELSE IF o \in {"ok", "mmap"} THEN "open" ELSE "closed"
    /\ devMmap' = IF o = "ok" THEN finfo.Smem_len ELSE devMmap
    /\ openRet' = IF o = "ok" THEN "dev" ELSE o

\* func Open(dev string) (*Device, error), with outcome o.  A successful
\* unix.Open returns a descriptor that is not negative, so the "fd overflows"
\* branch is never taken; mmap of zero bytes fails with EINVAL.
Open(o) ==
    /\ o = "ok" => finfo.Smem_len > 0
    /\ devFd' = IF o = "open" THEN devFd
                ELSE IF o = "ok" THEN "open" ELSE "closed"
    /\ devMmap' = IF o = "ok" THEN finfo.Smem_len ELSE devMmap
    /\ openRet' = IF o = "ok" THEN "dev" ELSE o

\* func (d *Device) Close() error: e1 and e2 tell whether unix.Munmap and
\* unix.Close fail; a mapping whose munmap failed stays mapped, and fdAfter is
\* the state in which a failed close(2) leaves the descriptor.
Close(e1, e2, fdAfter) ==
    /\ devMmap' = IF e1 THEN devMmap ELSE -1
    /\ devFd' = IF e2 THEN fdAfter ELSE "closed"
    /\ closeE1' = e1
    /\ closeRet' = IF e2 THEN {"close"} ELSE IF e1 THEN {"munmap"} ELSE {}

\* The device before fb.Open.
DeviceInit ==
    /\ devFd = "none"
    /\ devMmap = -1
    /\ openRet = "pending"
    /\ img = Nil
    /\ imgErr = Pending
    /\ closeRet = {"pending"}
    /\ closeE1 = FALSE
    /\ pixQ = <<>>

\* The 800x600 16-bit screen with a scanline of 1600 bytes.
ExampleVinfo ==
    [Xres |-> 800, Yres |-> 600, Xres_virtual |-> 800, Yres_virtual |-> 600,
     Xoffset |-> 0, Yoffset |-> 0, Bits_per_pixel |-> 16, Grayscale |-> 0]

ExampleFinfo == [Smem_len |-> 800 * 600 * 2, Line_length |-> 1600]

\* The goroutines that touch Handle.visible.
Procs == {"main", "h1", "h2"}

\* The lock is free and every goroutine is before its first step.
LockInit ==
    /\ mu = "none"
    /\ lpc = [p \in Procs |-> IF p = "main" THEN "sv_lock" ELSE "recv"]

(***************************************************************************)
(* internal/fbimage: At and Set of the BGR565 and BGRA surfaces, and the   *)
(* copy loops of draw1.  Bytes are 0..255 and uint8 / uint32 expressions   *)
(* keep their width.                                                       *)
(***************************************************************************)

\* x | y on naturals.
RECURSIVE BitOr(_, _)
BitOr(x, y) ==
    IF x = 0 THEN y
    ELSE IF y = 0 THEN x
    ELSE (IF x % 2 = 1 \/ y % 2 = 1 THEN 1 ELSE 0) + 2 * BitOr(x \div 2, y \div 2)

\* b >> n and the uint8 value of b << n.
Shr(b, n) == b \div (2 ^ n)

Shl8(b, n) == (b * (2 ^ n)) % 256

\* image.Point{x, y}.In(r)
PointIn(x, y, r) ==
    /\ r.MinX <= x /\ x < r.MaxX
    /\ r.MinY <= y /\ y < r.MaxY

\* The colours color.NRGBA{} / color.RGBA{} as <<R, G, B, A>>.
ZeroColour == <<0, 0, 0, 0>>

\* pix[0], pix[1] of SetNRGBA and of the 16-bit copy loop, for colour c.
Pack565_NoGreenHigh(c) ==
    << BitOr(Shr(c[3], 3), Shl8(Shr(c[2], 2), 5)),
       Shl8(Shr(c[1], 3), 3) >>

Pack565(c) ==
    << BitOr(Shr(c[3], 3), Shl8(Shr(c[2], 2), 5)),
       BitOr(Shr(c[2], 5), Shl8(Shr(c[1], 3), 3)) >>

\* The color.NRGBA that BGR565.At builds from the bytes p0 = pix[0], p1 = pix[1].
Unpack565(p0, p1) ==
    << Shl8(Shr(p1, 3), 3),
       BitOr(Shl8(p1, 5), Shl8(Shr(p0, 5), 2)),
       Shl8(p0, 3),
       255 >>

\* pix[0..3] of BGRA.SetRGBA in memory order R, G, B, A.
PackBGRA_RGBAOrder(c) == <<c[1], c[2], c[3], c[4]>>

\* pix[0..3] of BGRA.SetRGBA for colour c.
PackBGRA(c) == <<c[3], c[2], c[1], c[4]>>

\* The color.RGBA that BGRA.At builds from the four bytes of a pixel.
UnpackBGRA(b) == <<b[3], b[2], b[1], b[4]>>

\* Writing the bytes bs one after the other at p[o:], as the assignments
\* pix[0] = ..., pix[1] = ... do: a slice expression or an index out of range
\* panics, and the bytes written before it stay written.
Store(p, o, bs) ==
    LET n == Len(bs)
        ok(j) == o >= 0 /\ \A m \in o..j : m \in DOMAIN p
    IN  [pix |-> [j \in DOMAIN p |->
                    IF j \in o..(o + n - 1) /\ ok(j) THEN bs[j - o + 1] ELSE p[j]],
         panic |-> ~(o >= 0 /\ \A m \in o..(o + n - 1) : m \in DOMAIN p),
         touched |-> {j \in DOMAIN p : j \in o..(o + n - 1) /\ ok(j)}]

\* Reading n bytes at p[o:]; any index out of range panics.
Load(p, o, n) ==
    LET ok == o >= 0 /\ \A m \in o..(o + n - 1) : m \in DOMAIN p
    IN  [bytes |-> IF ok THEN [k \in 1..n |-> p[o + k - 1]] ELSE <<>>,
         panic |-> ~ok,
         touched |-> IF ok THEN o..(o + n - 1) ELSE {}]

\* A set that does not test the rectangle.
SetPixel_NoBoundsCheck(i, p, x, y, c) ==
    Store(p, PixOffset(i, PixBytes(i), x, y),
          IF i.kind = "BGRA" THEN PackBGRA(c) ELSE Pack565(c))

\* BGR565.SetNRGBA / BGRA.SetRGBA on surface i with memory p
SetPixel(i, p, x, y, c) ==
    IF ~PointIn(x, y, i.Rect)
    THEN [pix |-> p, panic |-> FALSE, touched |-> {}]
    ELSE Store(p, PixOffset(i, PixBytes(i), x, y),
               IF i.kind = "BGRA" THEN PackBGRA(c) ELSE Pack565(c))

\* BGR565.At / BGRA.At on surface i with memory p
AtPixel(i, p, x, y) ==
    IF ~PointIn(x, y, i.Rect)
    THEN [c |-> ZeroColour, panic |-> FALSE, touched |-> {}]
    ELSE LET l == Load(p, PixOffset(i, PixBytes(i), x, y), PixBytes(i))
         IN  [c |-> IF l.panic THEN ZeroColour
                    ELSE IF i.kind = "BGRA" THEN UnpackBGRA(l.bytes)
                    ELSE Unpack565(l.bytes[1], l.bytes[2]),
              panic |-> l.panic,
              touched |-> l.touched]

\* r := uint32(s); r |= r << 8
Widen(s) == BitOr(s, s * 256)

\* x * y for x, y below 2^16, as the two 16-bit halves of the exact product;
\* the uint32 product is exact as long as hi stays below 2^16.
MulU32(x, y) ==
    LET p1 == x * (y \div 256)
        p0 == x * (y % 256)
        t  == p0 + (p1 % 256) * 256
    IN  [hi |-> (p1 \div 256) + (t \div 65536), lo |-> t % 65536]

\* n / a for a uint32 n given by its halves and 0 < a < 2^16, by long
\* division over the four bytes of n; the result is the quotient's bytes,
\* most significant first.
DivU32(n, a) ==
    LET d  == <<(n.hi % 65536) \div 256, n.hi % 256, n.lo \div 256, n.lo % 256>>
        c3 == d[1]
        c2 == (c3 % a) * 256 + d[2]
        c1 == (c2 % a) * 256 + d[3]
        c0 == (c1 % a) * 256 + d[4]
    IN  <<c3 \div a, c2 \div a, c1 \div a, c0 \div a>>

\* The default case of the copy loop for one channel s of a pixel with alpha
\* byte a: r = (r * 0xffff) / a on the widened values, then r >> 8.
\* shifted is r >> 8 before the conversion to uint8.
Scale(s, a) ==
    LET prod == MulU32(Widen(s), 65535)
        q    == DivU32(prod, Widen(a))
    IN  [shifted |-> q[1] * 65536 + q[2] * 256 + q[3],
         overflow |-> prod.hi >= 65536]

\* The conversion with the alpha-255 shortcut taken for every alpha.
NRGBAOf_NoScale(s) ==
    <<s[1], s[2], s[3], s[4]>>

\* The switch of copyRGBAtoBGR565: the color.NRGBA for the source bytes
\* s = <<R, G, B, A>> of a premultiplied pixel.
NRGBAOf(s) ==
    IF s[4] = 255 THEN <<s[1], s[2], s[3], 255>>
    ELSE IF s[4] = 0 THEN ZeroColour
    ELSE << Scale(s[1], s[4]).shifted % 256,
            Scale(s[2], s[4]).shifted % 256,
            Scale(s[3], s[4]).shifted % 256,
            Shr(Widen(s[4]), 8) % 256 >>

\* BGR565.Set on a colour of the RGBA buffer: color.NRGBAModel.Convert, which
\* computes (r * 0xffff) / a on the 16-bit values r = s * 0x101, a = A * 0x101
\* of Color.RGBA(); the common factor 0x101 cancels in the quotient.
NRGBAModelConvert(s) ==
    IF s[4] = 255 THEN <<s[1], s[2], s[3], 255>>
    ELSE IF s[4] = 0 THEN ZeroColour
    ELSE << (((s[1] * 65535) \div s[4]) \div 256) % 256,
            (((s[2] * 65535) \div s[4]) \div 256) % 256,
            (((s[3] * 65535) \div s[4]) \div 256) % 256,
            s[4] >>

\* image.NewRGBA(r) holding the colours col[k], k the row-major number of
\* the pixel.
NewRGBA(r, col) ==
    LET w == IF Dx(r) > 0 THEN Dx(r) ELSE 0
        h == IF Dy(r) > 0 THEN Dy(r) ELSE 0
    IN  [Rect |-> r, Stride |-> 4 * w,
         Pix |-> [j \in 0..(4 * w * h - 1) |-> col[j \div 4][(j % 4) + 1]]]

\* image.RGBA.PixOffset
RGBAPixOffset(b, x, y) ==
    (y - b.Rect.MinY) * b.Stride + (x - b.Rect.MinX) * 4

\* The colour of pixel (x, y) of the buffer, (x, y) inside its rectangle.
BufferAt(b, x, y) ==
    [k \in 1..4 |-> b.Pix[RGBAPixOffset(b, x, y) + k - 1]]

\* copyRGBAtoBGR565(dst, src) from the k-th iteration on, with
\* bounds = dst.Bounds(): y runs over 0..bounds.Max.Y-1 and x over
\* 0..bounds.Max.X-1; a slice or index out of range panics and ends the copy.
RECURSIVE Copy565From(_, _, _, _)
Copy565From(k, i, p, src) ==
    IF i.Rect.MaxX <= 0 \/ k >= i.Rect.MaxX * i.Rect.MaxY
    THEN [pix |-> p, panic |-> FALSE]
    ELSE LET x == k % i.Rect.MaxX
             y == k \div i.Rect.MaxX
             s == Load(src.Pix, RGBAPixOffset(src, x, y), 4)
         IN  IF s.panic THEN [pix |-> p, panic |-> TRUE]
             ELSE LET st == Store(p, PixOffset(i, 2, x, y),
                                  Pack565(NRGBAOf(s.bytes)))
                  IN  IF st.panic THEN [pix |-> st.pix, panic |-> TRUE]
                      ELSE Copy565From(k + 1, i, st.pix, src)

copyRGBAtoBGR565(i, p, src) == Copy565From(0, i, p, src)

\* copyRGBAtoBGRA(dst, src): for i := 0; i < len(src.Pix); i += 4 the four
\* bytes src.Pix[i:i+4] go to dst.Pix[i:i+4] with R and B swapped; the slice
\* dst.Pix[i:i+4:i+4] panics when it does not fit.
copyRGBAtoBGRA(i, p, src) ==
    LET n == Cardinality(DOMAIN src.Pix)
        m == Cardinality(DOMAIN p)
        fits(j) == (j \div 4) * 4 + 4 <= m
        from(j) == (j \div 4) * 4 + (CASE j % 4 = 0 -> 2 [] j % 4 = 2 -> 0
                                       [] OTHER -> j % 4)
    IN  [pix |-> [j \in DOMAIN p |-> IF j < n /\ fits(j) THEN src.Pix[from(j)]
                                    ELSE p[j]],
         panic |-> \E j \in DOMAIN src.Pix : ~fits(j)]

NoBuffer == [Rect |-> ZR, Stride |-> 0, Pix |-> <<>>]

NoArg == [op |-> "none", x |-> 0, y |-> 0, c |-> ZeroColour]

NoResult ==
    [op |-> "none", c |-> ZeroColour, panic |-> FALSE, touched |-> {},
     overflow |-> FALSE, shifted |-> 0]

\* The drawer before newStatusDrawer.
DrawerInit ==
    /\ last = <<>>
    /\ slowPathNotified = FALSE
    /\ slowLogs = 0
    /\ draws = 0
    /\ copyPath = "none"
    /\ drawRet = "none"

\* No pixel has been touched: nothing is mapped and there is no buffer.
PixInit ==
    /\ pix = <<>>
    /\ buffer = NoBuffer
    /\ arg = NoArg
    /\ got = NoResult

(***************************************************************************)
(* Initial state: fbstatus() has registered the interrupt context and is   *)
(* about to call LeaseForGraphics.  All terminals but the last are         *)
(* allocated and one of them is active.                                    *)
(***************************************************************************)
ConsoleInit ==
    /\ pc = "L_openqry"
    /\ err = "none"
    /\ leaseRet = "pending"
    /\ leaseOps = <<>>
    /\ cleanupOps = <<>>
    /\ failedStep = "none"
    /\ cleanupErr = "none"
    /\ free = 0
    /\ stActive = 0
    /\ hdlVt = 0
    /\ hdlPrevVT = 0
    /\ visible = FALSE
    /\ lastSetBy = "none"
    /\ redraw = 0
    /\ redrawClosed = FALSE
    /\ ttyOpen = FALSE
    /\ notify1 = FALSE
    /\ notify2 = FALSE
    /\ usr1 = 0
    /\ usr2 = 0
    /\ h1pc = "off"
    /\ h2pc = "off"
    /\ h1set = FALSE
    /\ acqRuns = 0
    /\ kAllocated = 1..(MaxVT - 1)
    /\ kActive \in kAllocated
    /\ kMode = "auto"
    /\ kKd = "text"
    /\ kRelPending = FALSE
    /\ kTarget = 0
    /\ switches = 0
    /\ cancelled = FALSE
    /\ tickReady = FALSE
    /\ obs = FALSE
    /\ lastDraw = "none"
    /\ relMidDraw = FALSE
    /\ cleanupCalls = 0
    /\ switchBackConfirmed = FALSE
    /\ panicked = FALSE

\* fbstatus() starts on the example screen, with the visibility lock free.
Init ==
    /\ ConsoleInit
    /\ DeviceInit
    /\ vinfo = ExampleVinfo /\ finfo = ExampleFinfo
    /\ LockInit
    /\ PixInit
    /\ DrawerInit

(***************************************************************************)
(* LeaseForGraphics                                                        *)
(***************************************************************************)

\* The order in which a LeaseForGraphics that succeeds issues its operations.
LeaseOrder == <<"open_tty0", "VT_OPENQRY", "close_tty0", "open_tty",
                "VT_GETSTATE", "VT_ACTIVATE", "VT_WAITACTIVE", "new_handle",
                "VT_GETMODE", "notify_usr1", "notify_usr2", "setVisible_true",
                "VT_SETMODE_PROCESS", "KDSETMODE_GRAPHICS">>

\* return nil, err: fbstatus returns the error at once (no cleanup deferred yet).
LeaseFail(op) ==
    /\ pc' = "returned"
    /\ err' = op
    /\ leaseRet' = "nil"
    /\ failedStep' = op

LeaseGo(next) ==
    /\ pc' = next
    /\ UNCHANGED <<err, leaseRet, failedStep>>

\* nextFreeConsole: open /dev/tty0, VT_OPENQRY, close.
NextFreeConsole ==
    /\ Running /\ pc = "L_openqry"
    /\ \E outcome \in {"open", "ioctl", "close", "ok"} :
        \/ /\ outcome = "open"
           /\ leaseOps' = leaseOps \o <<"open_tty0">>
           /\ LeaseFail("open_tty0")
           /\ UNCHANGED free
        \/ /\ outcome = "ioctl"
           /\ leaseOps' = leaseOps \o <<"open_tty0", "VT_OPENQRY">>
           /\ LeaseFail("VT_OPENQRY")
           /\ UNCHANGED free
        \/ /\ outcome = "close"
           /\ leaseOps' = leaseOps \o <<"open_tty0", "VT_OPENQRY", "close_tty0">>
           /\ LeaseFail("close_tty0")
           /\ UNCHANGED free
        \/ /\ outcome = "ok"
           /\ leaseOps' = leaseOps \o <<"open_tty0", "VT_OPENQRY", "close_tty0">>
           /\ free' = Min(VTs \ kAllocated)
           /\ LeaseGo("L_open")
    /\ UNCHANGED <<cleanupOps, cleanupErr, stActive, cleanupCalls, switchBackConfirmed>>
    /\ UNCHANGED <<hdlVars, visVars, chanVars, sigVars, hVars, kVars, envVars,
                   drawVars, ttyOpen, panicked>>
    /\ UNCHANGED auxVars

\* os.OpenFile("/dev/tty<free>", O_RDWR): opening a terminal allocates it.
OpenTty ==
    /\ Running /\ pc = "L_open"
    /\ leaseOps' = leaseOps \o <<"open_tty">>
    /\ \E ok \in BOOLEAN :
        IF ok
        THEN /\ ttyOpen' = TRUE
             /\ kAllocated' = kAllocated \cup {free}
             /\ LeaseGo("L_getstate")
        ELSE /\ LeaseFail("open_tty")
             /\ UNCHANGED <<ttyOpen, kAllocated>>
    /\ UNCHANGED <<cleanupOps, cleanupErr, free, stActive, cleanupCalls, switchBackConfirmed>>
    /\ UNCHANGED <<kActive, kMode, kKd, kRelPending, kTarget, switches>>
    /\ UNCHANGED <<hdlVars, visVars, chanVars, sigVars, hVars, envVars,
                   drawVars, panicked>>
    /\ UNCHANGED auxVars

\* ioctl(VT_GETSTATE): reads the active terminal into state.Active.
GetState ==
    /\ Running /\ pc = "L_getstate"
    /\ leaseOps' = leaseOps \o <<"VT_GETSTATE">>
    /\ \E ok \in BOOLEAN :
        IF ok
        THEN /\ stActive' = kActive
             /\ LeaseGo("L_activate")
        ELSE /\ LeaseFail("VT_GETSTATE")
             /\ UNCHANGED stActive
    /\ UNCHANGED <<cleanupOps, cleanupErr, free, cleanupCalls, switchBackConfirmed>>
    /\ UNCHANGED <<hdlVars, visVars, chanVars, sigVars, hVars, kVars, envVars,
                   drawVars, ttyOpen, panicked>>
    /\ UNCHANGED auxVars

\* ioctl(VT_ACTIVATE, free): the kernel switches to the new terminal.
Activate ==
    /\ Running /\ pc = "L_activate"
    /\ leaseOps' = leaseOps \o <<"VT_ACTIVATE">>
    /\ \E ok \in BOOLEAN :
        IF ok
        THEN /\ kActive' = free
             /\ LeaseGo("L_waitactive")
        ELSE /\ LeaseFail("VT_ACTIVATE")
             /\ UNCHANGED kActive
    /\ UNCHANGED <<cleanupOps, cleanupErr, free, stActive, cleanupCalls, switchBackConfirmed>>
    /\ UNCHANGED <<kAllocated, kMode, kKd, kRelPending, kTarget, switches>>
    /\ UNCHANGED <<hdlVars, visVars, chanVars, sigVars, hVars, envVars,
                   drawVars, ttyOpen, panicked>>
    /\ UNCHANGED auxVars

\* ioctl(VT_WAITACTIVE, free): returns once the terminal is active, or fails.
WaitActive ==
    /\ Running /\ pc = "L_waitactive"
    /\ leaseOps' = leaseOps \o <<"VT_WAITACTIVE">>
    /\ \E ok \in BOOLEAN :
        IF ok
        THEN /\ kActive = free
             /\ LeaseGo("L_handle")
        ELSE LeaseFail("VT_WAITACTIVE")
    /\ UNCHANGED <<cleanupOps, cleanupErr, free, stActive, cleanupCalls, switchBackConfirmed>>
    /\ UNCHANGED <<hdlVars, visVars, chanVars, sigVars, hVars, kVars, envVars,
                   drawVars, ttyOpen, panicked>>
    /\ UNCHANGED auxVars
\* A handle that remembers the new terminal as the previous one.
NewHandle_PrevIsNew ==
    /\ Running /\ pc = "L_handle"
    /\ leaseOps' = leaseOps \o <<"new_handle">>
    /\ hdlVt' = free
    /\ hdlPrevVT' = free
    /\ LeaseGo("L_getmode")
    /\ UNCHANGED <<cleanupOps, cleanupErr, free, stActive, cleanupCalls, switchBackConfirmed>>
    /\ UNCHANGED <<visVars, chanVars, sigVars, hVars, kVars, envVars,
                   drawVars, ttyOpen, panicked>>
    /\ UNCHANGED auxVars

\* hdl := &Handle{f, vt: free, prevVT: state.Active, redraw: make(chan, 1)}
NewHandle ==
    /\ Running /\ pc = "L_handle"
    /\ leaseOps' = leaseOps \o <<"new_handle">>
    /\ hdlVt' = free
    /\ hdlPrevVT' = stActive
    /\ LeaseGo("L_getmode")
    /\ UNCHANGED <<cleanupOps, cleanupErr, free, stActive, cleanupCalls, switchBackConfirmed>>
    /\ UNCHANGED <<visVars, chanVars, sigVars, hVars, kVars, envVars,
                   drawVars, ttyOpen, panicked>>
    /\ UNCHANGED auxVars

\* handleSwitches: ioctl(VT_GETMODE)
GetMode ==
    /\ Running /\ pc = "L_getmode"
    /\ leaseOps' = leaseOps \o <<"VT_GETMODE">>
    /\ \E ok \in BOOLEAN :
        IF ok THEN LeaseGo("L_notify1") ELSE LeaseFail("VT_GETMODE")
    /\ UNCHANGED <<cleanupOps, cleanupErr, free, stActive, cleanupCalls, switchBackConfirmed>>
    /\ UNCHANGED <<hdlVars, visVars, chanVars, sigVars, hVars, kVars, envVars,
                   drawVars, ttyOpen, panicked>>
    /\ UNCHANGED auxVars

\* A handleSwitches that skips the registration of SIGUSR1 and never starts
\* its goroutine.
NotifyUsr1_NoRegister ==
    /\ Running /\ pc = "L_notify1"
    /\ leaseOps' = leaseOps \o <<"notify_usr1">>
    /\ LeaseGo("L_notify2")
    /\ UNCHANGED <<cleanupOps, cleanupErr, free, stActive, cleanupCalls, switchBackConfirmed>>
    /\ UNCHANGED <<notify1, h1pc, notify2, usr1, usr2, h2pc, h1set, acqRuns>>
    /\ UNCHANGED <<hdlVars, visVars, chanVars, kVars, envVars,
                   drawVars, ttyOpen, panicked>>
    /\ UNCHANGED auxVars

\* handleSwitches: usr1 := make(chan os.Signal, 1); signal.Notify(usr1, SIGUSR1); go func
NotifyUsr1 ==
    /\ Running /\ pc = "L_notify1"
    /\ leaseOps' = leaseOps \o <<"notify_usr1">>
    /\ notify1' = TRUE
    /\ h1pc' = "recv"
    /\ LeaseGo("L_notify2")
    /\ UNCHANGED <<cleanupOps, cleanupErr, free, stActive, cleanupCalls, switchBackConfirmed>>
    /\ UNCHANGED <<notify2, usr1, usr2, h2pc, h1set, acqRuns>>
    /\ UNCHANGED <<hdlVars, visVars, chanVars, kVars, envVars,
                   drawVars, ttyOpen, panicked>>
    /\ UNCHANGED auxVars

\* handleSwitches: usr2 := make(chan os.Signal, 1); signal.Notify(usr2, SIGUSR2); go func
NotifyUsr2 ==
    /\ Running /\ pc = "L_notify2"
    /\ leaseOps' = leaseOps \o <<"notify_usr2">>
    /\ notify2' = TRUE
    /\ h2pc' = "recv"
    /\ LeaseGo("L_setvisible")
    /\ UNCHANGED <<cleanupOps, cleanupErr, free, stActive, cleanupCalls, switchBackConfirmed>>
    /\ UNCHANGED <<notify1, usr1, usr2, h1pc, h1set, acqRuns>>
    /\ UNCHANGED <<hdlVars, visVars, chanVars, kVars, envVars,
                   drawVars, ttyOpen, panicked>>
    /\ UNCHANGED auxVars

\* A setVisible(true) that forgets the assignment (mutant of SetVisibleTrue).
SetVisibleTrue_NoStore ==
    /\ Running /\ pc = "L_setvisible"
    /\ leaseOps' = leaseOps \o <<"setVisible_true">>
    /\ LeaseGo("L_setmode")
    /\ UNCHANGED <<cleanupOps, cleanupErr, free, stActive, cleanupCalls, switchBackConfirmed>>
    /\ UNCHANGED <<hdlVars, visVars, chanVars, sigVars, hVars, kVars, envVars,
                   drawVars, ttyOpen, panicked>>
    /\ UNCHANGED auxVars

\* handleSwitches: hdl.setVisible(true)
SetVisibleTrue ==
    /\ Running /\ pc = "L_setvisible"
    /\ leaseOps' = leaseOps \o <<"setVisible_true">>
    /\ visible' = TRUE
    /\ lastSetBy' = "main"
    /\ LeaseGo("L_setmode")
    /\ UNCHANGED <<cleanupOps, cleanupErr, free, stActive, cleanupCalls, switchBackConfirmed>>
    /\ UNCHANGED <<hdlVars, chanVars, sigVars, hVars, kVars, envVars,
                   drawVars, ttyOpen, panicked>>
    /\ UNCHANGED auxVars

\* handleSwitches: ioctl(VT_SETMODE, {VT_PROCESS, relsig SIGUSR1, acqsig SIGUSR2})
SetModeProcess ==
    /\ Running /\ pc = "L_setmode"
    /\ leaseOps' = leaseOps \o <<"VT_SETMODE_PROCESS">>
    /\ \E ok \in BOOLEAN :
        IF ok
        THEN /\ kMode' = "process"
             /\ LeaseGo("L_kdsetmode")
        ELSE /\ LeaseFail("VT_SETMODE_PROCESS")
             /\ UNCHANGED kMode
    /\ UNCHANGED <<cleanupOps, cleanupErr, free, stActive, cleanupCalls, switchBackConfirmed>>
    /\ UNCHANGED <<kActive, kAllocated, kKd, kRelPending, kTarget, switches>>
    /\ UNCHANGED <<hdlVars, visVars, chanVars, sigVars, hVars, envVars,
                   drawVars, ttyOpen, panicked>>
    /\ UNCHANGED auxVars

\* A KDSETMODE step that hands out the handle although the ioctl failed
\* (mutant of KdSetGraphics).
KdSetGraphics_IgnoreError ==
    /\ Running /\ pc = "L_kdsetmode"
    /\ leaseOps' = leaseOps \o <<"KDSETMODE_GRAPHICS">>
    /\ \E ok \in BOOLEAN :
        IF ok
        THEN /\ kKd' = "graphics"
             /\ leaseRet' = "hdl"
             /\ pc' = "F_open"
             /\ UNCHANGED <<err, failedStep>>
        ELSE /\ leaseRet' = "hdl"
             /\ pc' = "F_open"
             /\ failedStep' = "KDSETMODE_GRAPHICS"
             /\ UNCHANGED <<err, kKd>>
    /\ UNCHANGED <<cleanupOps, cleanupErr, free, stActive, cleanupCalls, switchBackConfirmed>>
    /\ UNCHANGED <<kActive, kAllocated, kMode, kRelPending, kTarget, switches>>
    /\ UNCHANGED <<hdlVars, visVars, chanVars, sigVars, hVars, envVars,
                   drawVars, ttyOpen, panicked>>
    /\ UNCHANGED auxVars

\* ioctl(KDSETMODE, KD_GRAPHICS); return hdl, nil.  fbstatus then defers Cleanup.
KdSetGraphics ==
    /\ Running /\ pc = "L_kdsetmode"
    /\ leaseOps' = leaseOps \o <<"KDSETMODE_GRAPHICS">>
    /\ \E ok \in BOOLEAN :
        IF ok
        THEN /\ kKd' = "graphics"
             /\ leaseRet' = "hdl"
             /\ pc' = "F_open"
             /\ UNCHANGED <<err, failedStep>>
        ELSE /\ LeaseFail("KDSETMODE_GRAPHICS")
             /\ UNCHANGED kKd
    /\ UNCHANGED <<cleanupOps, cleanupErr, free, stActive, cleanupCalls, switchBackConfirmed>>
    /\ UNCHANGED <<kActive, kAllocated, kMode, kRelPending, kTarget, switches>>
    /\ UNCHANGED <<hdlVars, visVars, chanVars, sigVars, hVars, envVars,
                   drawVars, ttyOpen, panicked>>
    /\ UNCHANGED auxVars

(***************************************************************************)
(* fbstatus: device, surface, drawer, render loop                          *)
(***************************************************************************)

\* return e from fbstatus with the Cleanup closure deferred: Cleanup is called.
Return(e) ==
    /\ err' = e
    /\ pc' = "C_kdtext"
    /\ cleanupCalls' = cleanupCalls + 1

\* return e from fbstatus as if Cleanup had not been deferred.
ReturnNoCleanup(e) ==
    /\ err' = e
    /\ pc' = "returned"
    /\ UNCHANGED cleanupCalls

\* A surface step whose error path skips the deferred Cleanup (mutant of DevImage).
DevImage_NoDefer ==
    /\ Running /\ pc = "F_image"
    /\ \E ok \in BOOLEAN :
        IF ok
        THEN pc' = "F_drawer" /\ UNCHANGED <<err, cleanupCalls>>
        ELSE ReturnNoCleanup("Image")
    /\ UNCHANGED <<leaseRet, leaseOps, cleanupOps, failedStep, cleanupErr, free,
                   stActive, switchBackConfirmed>>
    /\ UNCHANGED <<hdlVars, visVars, chanVars, sigVars, hVars, kVars, envVars,
                   drawVars, ttyOpen, panicked>>
    /\ UNCHANGED auxVars

\* dev, err := fb.Open("/dev/fb0")
DevOpen ==
    /\ Running /\ pc = "F_open"
    /\ \E o \in OpenOutcomes :
        /\ Open(o)
        /\ IF o = "ok"
           THEN pc' = "F_image" /\ UNCHANGED <<err, cleanupCalls>>
           ELSE Return("fb.Open")
    /\ UNCHANGED <<leaseRet, leaseOps, cleanupOps, failedStep, cleanupErr, free,
                   stActive, switchBackConfirmed>>
    /\ UNCHANGED <<hdlVars, visVars, chanVars, sigVars, hVars, kVars, envVars,
                   drawVars, ttyOpen, panicked>>
    /\ UNCHANGED <<finfo, vinfo, img, imgErr, closeRet, closeE1, pixQ, lockVars,
                   pixVars, drawerVars>>

\* img, err := dev.Image()
DevImage ==
    /\ Running /\ pc = "F_image"
    /\ \E ok \in BOOLEAN :
        IF ok
        THEN pc' = "F_drawer" /\ UNCHANGED <<err, cleanupCalls>>
        ELSE Return("Image")
    /\ UNCHANGED <<leaseRet, leaseOps, cleanupOps, failedStep, cleanupErr, free,
                   stActive, switchBackConfirmed>>
    /\ UNCHANGED <<hdlVars, visVars, chanVars, sigVars, hVars, kVars, envVars,
                   drawVars, ttyOpen, panicked>>
    /\ UNCHANGED auxVars

\* drawer, err := newStatusDrawer(img); tick := time.Tick(1 * time.Second)
NewDrawer ==
    /\ Running /\ pc = "F_drawer"
    /\ \E ok \in BOOLEAN :
        IF ok
        THEN pc' = "loop" /\ UNCHANGED <<err, cleanupCalls>>
        ELSE Return("newStatusDrawer")
    /\ UNCHANGED <<leaseRet, leaseOps, cleanupOps, failedStep, cleanupErr, free,
                   stActive, switchBackConfirmed>>
    /\ UNCHANGED <<hdlVars, visVars, chanVars, sigVars, hVars, kVars, envVars,
                   drawVars, ttyOpen, panicked>>
    /\ UNCHANGED auxVars

\* A loop head that draws whatever Visible() returned (mutant of LoopVisible).
LoopVisible_AlwaysDraw ==
    /\ Running /\ pc = "loop"
    /\ obs' = visible
    /\ pc' = "D_read"
    /\ lastDraw' = "inflight"
    /\ relMidDraw' = FALSE
    /\ UNCHANGED <<err, leaseRet, leaseOps, cleanupOps, failedStep, cleanupErr, free,
                   stActive, cleanupCalls, switchBackConfirmed>>
    /\ UNCHANGED <<hdlVars, visVars, chanVars, sigVars, hVars, kVars, envVars,
                   ttyOpen, panicked>>
    /\ UNCHANGED auxVars

\* for { if cons.Visible() { draw1 ... } ; select ... }: the Visible() call
\* and the branch on its result.
LoopVisible ==
    /\ Running /\ pc = "loop"
    /\ obs' = visible
    /\ IF visible
       THEN /\ pc' = "D_read"
            /\ lastDraw' = "inflight"
       ELSE /\ pc' = "wait"
            /\ UNCHANGED lastDraw
    /\ relMidDraw' = FALSE
    /\ UNCHANGED <<err, leaseRet, leaseOps, cleanupOps, failedStep, cleanupErr, free,
                   stActive, cleanupCalls, switchBackConfirmed>>
    /\ UNCHANGED <<hdlVars, visVars, chanVars, sigVars, hVars, kVars, envVars,
                   ttyOpen, panicked>>
    /\ UNCHANGED auxVars

\* A render loop that logs the error of draw1 and carries on with the wait.
DrawRead_Retry ==
    /\ Running /\ pc = "D_read"
    /\ \E ok \in BOOLEAN :
        IF ok
        THEN /\ pc' = "D_render"
             /\ UNCHANGED <<err, cleanupCalls, lastDraw>>
        ELSE /\ pc' = "wait"
             /\ lastDraw' = "error"
             /\ UNCHANGED <<err, cleanupCalls>>
    /\ UNCHANGED <<obs, relMidDraw>>
    /\ UNCHANGED <<leaseRet, leaseOps, cleanupOps, failedStep, cleanupErr, free,
                   stActive, switchBackConfirmed>>
    /\ UNCHANGED <<hdlVars, visVars, chanVars, sigVars, hVars, kVars, envVars,
                   ttyOpen, panicked>>
    /\ UNCHANGED auxVars

\* draw1: Seek and ReadAll of the metric files, the only places draw1 returns
\* an error; fbstatus returns that error.
DrawRead ==
    /\ Running /\ pc = "D_read"
    /\ \E ok \in BOOLEAN :
        IF ok
        THEN /\ pc' = "D_render"
             /\ UNCHANGED <<err, cleanupCalls, lastDraw>>
        ELSE /\ Return("draw1")
             /\ lastDraw' = "error"
    /\ UNCHANGED <<obs, relMidDraw>>
    /\ UNCHANGED <<leaseRet, leaseOps, cleanupOps, failedStep, cleanupErr, free,
                   stActive, switchBackConfirmed>>
    /\ UNCHANGED <<hdlVars, visVars, chanVars, sigVars, hVars, kVars, envVars,
                   ttyOpen, panicked>>
    /\ UNCHANGED auxVars

\* draw1: rendering into the backing buffer.
DrawRender ==
    /\ Running /\ pc = "D_render"
    /\ pc' = "D_copy"
    /\ UNCHANGED <<err, leaseRet, leaseOps, cleanupOps, failedStep, cleanupErr, free,
                   stActive, cleanupCalls, switchBackConfirmed>>
    /\ UNCHANGED <<hdlVars, visVars, chanVars, sigVars, hVars, kVars, envVars,
                   drawVars, ttyOpen, panicked>>
    /\ UNCHANGED auxVars

\* A copy that is skipped when the console is no longer visible
\* (mutant of DrawCopy).
DrawCopy_OnlyIfVisible ==
    /\ Running /\ pc = "D_copy"
    /\ pc' = "wait"
    /\ lastDraw' = IF visible THEN "copied" ELSE lastDraw
    /\ UNCHANGED <<obs, relMidDraw>>
    /\ UNCHANGED <<err, leaseRet, leaseOps, cleanupOps, failedStep, cleanupErr, free,
                   stActive, cleanupCalls, switchBackConfirmed>>
    /\ UNCHANGED <<hdlVars, visVars, chanVars, sigVars, hVars, kVars, envVars,
                   ttyOpen, panicked>>
    /\ UNCHANGED auxVars

\* draw1: the copy of the backing buffer to the device surface; return nil.
DrawCopy ==
    /\ Running /\ pc = "D_copy"
    /\ pc' = "wait"
    /\ lastDraw' = "copied"
    /\ UNCHANGED <<obs, relMidDraw>>
    /\ UNCHANGED <<err, leaseRet, leaseOps, cleanupOps, failedStep, cleanupErr, free,
                   stActive, cleanupCalls, switchBackConfirmed>>
    /\ UNCHANGED <<hdlVars, visVars, chanVars, sigVars, hVars, kVars, envVars,
                   ttyOpen, panicked>>
    /\ UNCHANGED auxVars

\* A cancellation branch that only leaves the select (mutant of WaitCancel).
WaitCancel_Break ==
    /\ Running /\ pc = "wait"
    /\ cancelled
    /\ pc' = "loop"
    /\ UNCHANGED <<err, leaseRet, leaseOps, cleanupOps, failedStep, cleanupErr, free,
                   stActive, cleanupCalls, switchBackConfirmed>>
    /\ UNCHANGED <<hdlVars, visVars, chanVars, sigVars, hVars, kVars, envVars,
                   drawVars, ttyOpen, panicked>>
    /\ UNCHANGED auxVars

\* select: case <-ctx.Done(): return ctx.Err()
WaitCancel ==
    /\ Running /\ pc = "wait"
    /\ cancelled
    /\ Return("canceled")
    /\ UNCHANGED <<leaseRet, leaseOps, cleanupOps, failedStep, cleanupErr, free,
                   stActive, switchBackConfirmed>>
    /\ UNCHANGED <<hdlVars, visVars, chanVars, sigVars, hVars, kVars, envVars,
                   drawVars, ttyOpen, panicked>>
    /\ UNCHANGED auxVars

\* select: case <-cons.Redraw(): next iteration
WaitRedraw ==
    /\ Running /\ pc = "wait"
    /\ redraw > 0
    /\ redraw' = redraw - 1
    /\ acqRuns' = 0
    /\ pc' = "loop"
    /\ UNCHANGED <<redrawClosed, h1pc, h2pc, h1set>>
    /\ UNCHANGED <<err, leaseRet, leaseOps, cleanupOps, failedStep, cleanupErr, free,
                   stActive, cleanupCalls, switchBackConfirmed>>
    /\ UNCHANGED <<hdlVars, visVars, sigVars, kVars, envVars,
                   drawVars, ttyOpen, panicked>>
    /\ UNCHANGED auxVars

\* select: case <-tick: next iteration
WaitTick ==
    /\ Running /\ pc = "wait"
    /\ tickReady
    /\ tickReady' = FALSE
    /\ pc' = "loop"
    /\ UNCHANGED cancelled
    /\ UNCHANGED <<err, leaseRet, leaseOps, cleanupOps, failedStep, cleanupErr, free,
                   stActive, cleanupCalls, switchBackConfirmed>>
    /\ UNCHANGED <<hdlVars, visVars, chanVars, sigVars, hVars, kVars,
                   drawVars, ttyOpen, panicked>>
    /\ UNCHANGED auxVars

(***************************************************************************)
(* Handle.Cleanup (called by the closure fbstatus defers)                  *)
(***************************************************************************)

\* The order in which a Cleanup that meets no failure issues its operations.
CleanupOrder == <<"KDSETMODE_TEXT", "VT_GETMODE", "VT_SETMODE_AUTO",
                  "VT_ACTIVATE", "VT_WAITACTIVE", "close_tty", "close_redraw",
                  "open_tty0", "VT_DISALLOCATE", "close_tty0">>

\* return err from Cleanup: the deferred closure logs it and fbstatus returns.
CleanupFail(op) ==
    /\ pc' = "returned"
    /\ cleanupErr' = op

CleanupGo(next) ==
    /\ pc' = next
    /\ UNCHANGED cleanupErr

\* ioctl(KDSETMODE, KD_TEXT)
CKdText ==
    /\ Running /\ pc = "C_kdtext"
    /\ cleanupOps' = cleanupOps \o <<"KDSETMODE_TEXT">>
    /\ \E ok \in BOOLEAN :
        IF ok
        THEN /\ kKd' = "text"
             /\ CleanupGo("C_getmode")
        ELSE /\ CleanupFail("KDSETMODE_TEXT")
             /\ UNCHANGED kKd
    /\ UNCHANGED <<err, leaseRet, leaseOps, failedStep, free, stActive,
                   cleanupCalls, switchBackConfirmed>>
    /\ UNCHANGED <<kActive, kAllocated, kMode, kRelPending, kTarget, switches>>
    /\ UNCHANGED <<hdlVars, visVars, chanVars, sigVars, hVars, envVars,
                   drawVars, ttyOpen, panicked>>
    /\ UNCHANGED auxVars

\* unhandleSwitches: ioctl(VT_GETMODE)
CGetMode ==
    /\ Running /\ pc = "C_getmode"
    /\ cleanupOps' = cleanupOps \o <<"VT_GETMODE">>
    /\ \E ok \in BOOLEAN :
        IF ok THEN CleanupGo("C_setmode") ELSE CleanupFail("VT_GETMODE")
    /\ UNCHANGED <<err, leaseRet, leaseOps, failedStep, free, stActive,
                   cleanupCalls, switchBackConfirmed>>
    /\ UNCHANGED <<hdlVars, visVars, chanVars, sigVars, hVars, kVars, envVars,
                   drawVars, ttyOpen, panicked>>
    /\ UNCHANGED auxVars

\* unhandleSwitches: ioctl(VT_SETMODE, {VT_AUTO, 0, 0}); a pending switch
\* request is dropped by the kernel.
CSetModeAuto ==
    /\ Running /\ pc = "C_setmode"
    /\ cleanupOps' = cleanupOps \o <<"VT_SETMODE_AUTO">>
    /\ \E ok \in BOOLEAN :
        IF ok
        THEN /\ kMode' = "auto"
             /\ kRelPending' = FALSE
             /\ kTarget' = 0
             /\ CleanupGo("C_activate")
        ELSE /\ CleanupFail("VT_SETMODE_AUTO")
             /\ UNCHANGED <<kMode, kRelPending, kTarget>>
    /\ UNCHANGED <<err, leaseRet, leaseOps, failedStep, free, stActive,
                   cleanupCalls, switchBackConfirmed>>
    /\ UNCHANGED <<kActive, kAllocated, kKd, switches>>
    /\ UNCHANGED <<hdlVars, visVars, chanVars, sigVars, hVars, envVars,
                   drawVars, ttyOpen, panicked>>
    /\ UNCHANGED auxVars

\* ioctl(VT_ACTIVATE, h.prevVT)
CActivate ==
    /\ Running /\ pc = "C_activate"
    /\ cleanupOps' = cleanupOps \o <<"VT_ACTIVATE">>
    /\ \E ok \in BOOLEAN :
        IF ok
        THEN /\ kActive' = hdlPrevVT
             /\ CleanupGo("C_waitactive")
        ELSE /\ CleanupFail("VT_ACTIVATE")
             /\ UNCHANGED kActive
    /\ UNCHANGED <<err, leaseRet, leaseOps, failedStep, free, stActive,
                   cleanupCalls, switchBackConfirmed>>
    /\ UNCHANGED <<kAllocated, kMode, kKd, kRelPending, kTarget, switches>>
    /\ UNCHANGED <<hdlVars, visVars, chanVars, sigVars, hVars, envVars,
                   drawVars, ttyOpen, panicked>>
    /\ UNCHANGED auxVars

\* A wait whose failure does not stop Cleanup (mutant of CWaitActive).
CWaitActive_IgnoreError ==
    /\ Running /\ pc = "C_waitactive"
    /\ cleanupOps' = cleanupOps \o <<"VT_WAITACTIVE">>
    /\ \E ok \in BOOLEAN :
        IF ok
        THEN /\ kActive = hdlPrevVT
             /\ switchBackConfirmed' = TRUE
             /\ CleanupGo("C_close")
        ELSE /\ UNCHANGED switchBackConfirmed
             /\ CleanupGo("C_close")
    /\ UNCHANGED <<err, leaseRet, leaseOps, failedStep, free, stActive, cleanupCalls>>
    /\ UNCHANGED <<hdlVars, visVars, chanVars, sigVars, hVars, kVars, envVars,
                   drawVars, ttyOpen, panicked>>
    /\ UNCHANGED auxVars

\* ioctl(VT_WAITACTIVE, h.prevVT)
CWaitActive ==
    /\ Running /\ pc = "C_waitactive"
    /\ cleanupOps' = cleanupOps \o <<"VT_WAITACTIVE">>
    /\ \E ok \in BOOLEAN :
        IF ok
        THEN /\ kActive = hdlPrevVT
             /\ switchBackConfirmed' = TRUE
             /\ CleanupGo("C_close")
        ELSE /\ UNCHANGED switchBackConfirmed
             /\ CleanupFail("VT_WAITACTIVE")
    /\ UNCHANGED <<err, leaseRet, leaseOps, failedStep, free, stActive, cleanupCalls>>
    /\ UNCHANGED <<hdlVars, visVars, chanVars, sigVars, hVars, kVars, envVars,
                   drawVars, ttyOpen, panicked>>
    /\ UNCHANGED auxVars

\* h.f.Close(): the descriptor is released whether or not close reports an error.
CCloseTty ==
    /\ Running /\ pc = "C_close"
    /\ cleanupOps' = cleanupOps \o <<"close_tty">>
    /\ ttyOpen' = FALSE
    /\ \E ok \in BOOLEAN :
        IF ok THEN CleanupGo("C_closeredraw") ELSE CleanupFail("close_tty")
    /\ UNCHANGED <<err, leaseRet, leaseOps, failedStep, free, stActive,
                   cleanupCalls, switchBackConfirmed>>
    /\ UNCHANGED <<hdlVars, visVars, chanVars, sigVars, hVars, kVars, envVars,
                   drawVars, panicked>>
    /\ UNCHANGED auxVars

\* close(h.redraw)
CCloseRedraw ==
    /\ Running /\ pc = "C_closeredraw"
    /\ cleanupOps' = cleanupOps \o <<"close_redraw">>
    /\ redrawClosed' = TRUE
    /\ CleanupGo("C_disalloc")
    /\ UNCHANGED redraw
    /\ UNCHANGED <<err, leaseRet, leaseOps, failedStep, free, stActive,
                   cleanupCalls, switchBackConfirmed>>
    /\ UNCHANGED <<hdlVars, visVars, sigVars, hVars, kVars, envVars,
                   drawVars, ttyOpen, panicked>>
    /\ UNCHANGED auxVars

\* return disallocateConsole(h.vt): open /dev/tty0, VT_DISALLOCATE, close.
CDisallocate ==
    /\ Running /\ pc = "C_disalloc"
    /\ pc' = "returned"
    /\ \E outcome \in {"open", "ioctl", "close", "ok"} :
        \/ /\ outcome = "open"
           /\ cleanupOps' = cleanupOps \o <<"open_tty0">>
           /\ cleanupErr' = "open_tty0"
           /\ UNCHANGED kAllocated
        \/ /\ outcome = "ioctl"
           /\ cleanupOps' = cleanupOps \o <<"open_tty0", "VT_DISALLOCATE">>
           /\ cleanupErr' = "VT_DISALLOCATE"
           /\ UNCHANGED kAllocated
        \/ /\ outcome = "close"
           /\ cleanupOps' = cleanupOps \o <<"open_tty0", "VT_DISALLOCATE", "close_tty0">>
           /\ cleanupErr' = "close_tty0"
           /\ kAllocated' = kAllocated \ {hdlVt}
        \/ /\ outcome = "ok"
           /\ cleanupOps' = cleanupOps \o <<"open_tty0", "VT_DISALLOCATE", "close_tty0">>
           /\ UNCHANGED cleanupErr
           /\ kAllocated' = kAllocated \ {hdlVt}
    /\ UNCHANGED <<err, leaseRet, leaseOps, failedStep, free, stActive,
                   cleanupCalls, switchBackConfirmed>>
    /\ UNCHANGED <<kActive, kMode, kKd, kRelPending, kTarget, switches>>
    /\ UNCHANGED <<hdlVars, visVars, chanVars, sigVars, hVars, envVars,
                   drawVars, ttyOpen, panicked>>
    /\ UNCHANGED auxVars

(***************************************************************************)
(* The SIGUSR1 goroutine of handleSwitches: for range usr1 { ... }         *)
(***************************************************************************)

\* for range usr1: receive one signal from the channel.
H1Recv ==
    /\ Running /\ h1pc = "recv"
    /\ usr1 > 0
    /\ usr1' = usr1 - 1
    /\ h1pc' = "set"
    /\ h1set' = FALSE
    /\ UNCHANGED <<notify1, notify2, usr2, h2pc, acqRuns>>
    /\ UNCHANGED <<mainVars, hdlVars, visVars, chanVars, kVars, envVars,
                   drawVars, ttyOpen, panicked>>
    /\ UNCHANGED auxVars

\* A handler that goes on to the acknowledgement without setVisible(false)
\* (mutant of H1SetVisible).
H1SetVisible_Skip ==
    /\ Running /\ h1pc = "set"
    /\ h1pc' = "ack"
    /\ UNCHANGED <<h2pc, h1set, acqRuns>>
    /\ UNCHANGED <<mainVars, hdlVars, visVars, chanVars, sigVars, kVars, envVars,
                   drawVars, ttyOpen, panicked>>
    /\ UNCHANGED auxVars

\* hdl.setVisible(false)
H1SetVisible ==
    /\ Running /\ h1pc = "set"
    /\ visible' = FALSE
    /\ lastSetBy' = "rel"
    /\ h1set' = TRUE
    /\ h1pc' = "ack"
    /\ UNCHANGED <<h2pc, acqRuns>>
    /\ UNCHANGED <<mainVars, hdlVars, chanVars, sigVars, kVars, envVars,
                   drawVars, ttyOpen, panicked>>
    /\ UNCHANGED auxVars

\* ioctl(fd, VT_RELDISP, 1): the kernel completes the pending switch; without
\* a pending switch, or on a closed descriptor, the ioctl fails and the
\* failure is logged.
H1Ack ==
    /\ Running /\ h1pc = "ack"
    /\ h1pc' = "recv"
    /\ IF ttyOpen /\ kRelPending
       THEN /\ kActive' = kTarget
            /\ kRelPending' = FALSE
            /\ kTarget' = 0
       ELSE UNCHANGED <<kActive, kRelPending, kTarget>>
    /\ relMidDraw' = (relMidDraw \/ pc \in DrawPcs)
    /\ h1set' = FALSE
    /\ UNCHANGED <<obs, lastDraw>>
    /\ UNCHANGED <<kAllocated, kMode, kKd, switches>>
    /\ UNCHANGED <<h2pc, acqRuns>>
    /\ UNCHANGED <<mainVars, hdlVars, visVars, chanVars, sigVars, envVars,
                   ttyOpen, panicked>>
    /\ UNCHANGED auxVars

(***************************************************************************)
(* The SIGUSR2 goroutine of handleSwitches: for range usr2 { ... }         *)
(***************************************************************************)

\* for range usr2: receive one signal from the channel.
H2Recv ==
    /\ Running /\ h2pc = "recv"
    /\ usr2 > 0
    /\ usr2' = usr2 - 1
    /\ h2pc' = "set"
    /\ UNCHANGED <<notify1, notify2, usr1, h1pc, h1set, acqRuns>>
    /\ UNCHANGED <<mainVars, hdlVars, visVars, chanVars, kVars, envVars,
                   drawVars, ttyOpen, panicked>>
    /\ UNCHANGED auxVars

\* A SIGUSR2 handler that also overwrites the terminal to switch back to.
H2SetVisible_ResetsPrevVT ==
    /\ Running /\ h2pc = "set"
    /\ visible' = TRUE
    /\ lastSetBy' = "acq"
    /\ h2pc' = "ack"
    /\ hdlPrevVT' = hdlVt
    /\ UNCHANGED <<h1pc, h1set, acqRuns, hdlVt>>
    /\ UNCHANGED <<mainVars, chanVars, sigVars, kVars, envVars,
                   drawVars, ttyOpen, panicked>>
    /\ UNCHANGED auxVars

\* hdl.setVisible(true)
H2SetVisible ==
    /\ Running /\ h2pc = "set"
    /\ visible' = TRUE
    /\ lastSetBy' = "acq"
    /\ h2pc' = "ack"
    /\ UNCHANGED <<h1pc, h1set, acqRuns>>
    /\ UNCHANGED <<mainVars, hdlVars, chanVars, sigVars, kVars, envVars,
                   drawVars, ttyOpen, panicked>>
    /\ UNCHANGED auxVars

\* ioctl(fd, VT_RELDISP, VT_ACKACQ): no effect on the kernel's state; a
\* failure is logged.
H2Ack ==
    /\ Running /\ h2pc = "ack"
    /\ h2pc' = "send"
    /\ UNCHANGED <<h1pc, h1set, acqRuns>>
    /\ UNCHANGED <<mainVars, hdlVars, visVars, chanVars, sigVars, kVars, envVars,
                   drawVars, ttyOpen, panicked>>
    /\ UNCHANGED auxVars

\* A plain blocking send hdl.redraw <- struct{}{} (mutant of H2Send).
H2Send_Blocking ==
    /\ Running /\ h2pc = "send"
    /\ ~redrawClosed
    /\ redraw < RedrawCap
    /\ redraw' = redraw + 1
    /\ acqRuns' = acqRuns + 1
    /\ h2pc' = "recv"
    /\ UNCHANGED <<redrawClosed, panicked>>
    /\ UNCHANGED <<h1pc, h1set>>
    /\ UNCHANGED <<mainVars, hdlVars, visVars, sigVars, kVars, envVars,
                   drawVars, ttyOpen>>
    /\ UNCHANGED auxVars

\* select { case hdl.redraw <- struct{}{}: default: }: the notification is
\* dropped when the channel is full; a send on a closed channel panics.
H2Send ==
    /\ Running /\ h2pc = "send"
    /\ IF redrawClosed
       THEN /\ panicked' = TRUE
            /\ UNCHANGED <<redraw, acqRuns, h2pc>>
       ELSE /\ redraw' = IF redraw < RedrawCap THEN redraw + 1 ELSE redraw
            /\ acqRuns' = acqRuns + 1
            /\ h2pc' = "recv"
            /\ UNCHANGED panicked
    /\ UNCHANGED redrawClosed
    /\ UNCHANGED <<h1pc, h1set>>
    /\ UNCHANGED <<mainVars, hdlVars, visVars, sigVars, kVars, envVars,
                   drawVars, ttyOpen>>
    /\ UNCHANGED auxVars

(***************************************************************************)
(* Environment: the kernel's terminal layer, the interrupt, the ticker     *)
(***************************************************************************)

\* Delivery of a signal to a channel registered with signal.Notify: the
\* runtime sends without blocking and drops the signal when the channel is full.
Deliver(ch) == IF ch < SigChanCap THEN ch + 1 ELSE ch

\* The user asks to switch away from the leased terminal while it is in
\* process-controlled mode: the kernel sends the release signal (SIGUSR1)
\* and waits for VT_RELDISP.
KRelease ==
    /\ Running
    /\ kMode = "process" /\ kActive = hdlVt /\ ~kRelPending
    /\ switches < MaxSwitch
    /\ switches' = switches + 1
    /\ kRelPending' = TRUE
    /\ \E t \in kAllocated \ {hdlVt} : kTarget' = t
    /\ IF notify1
       THEN usr1' = Deliver(usr1) /\ UNCHANGED panicked
       ELSE panicked' = TRUE /\ UNCHANGED usr1
    /\ UNCHANGED <<kActive, kAllocated, kMode, kKd>>
    /\ UNCHANGED <<notify1, notify2, usr2>>
    /\ UNCHANGED <<mainVars, hdlVars, visVars, chanVars, hVars, envVars,
                   drawVars, ttyOpen>>
    /\ UNCHANGED auxVars

\* The user switches back to the leased terminal while it is in
\* process-controlled mode: the kernel activates it and sends the acquire
\* signal (SIGUSR2); it does not wait for the acknowledgement.
KAcquire ==
    /\ Running
    /\ kMode = "process" /\ hdlVt # 0 /\ kActive # hdlVt
    /\ kActive' = hdlVt
    /\ IF notify2
       THEN usr2' = Deliver(usr2) /\ UNCHANGED panicked
       ELSE panicked' = TRUE /\ UNCHANGED usr2
    /\ UNCHANGED <<kAllocated, kMode, kKd, kRelPending, kTarget, switches>>
    /\ UNCHANGED <<notify1, notify2, usr1>>
    /\ UNCHANGED <<mainVars, hdlVars, visVars, chanVars, hVars, envVars,
                   drawVars, ttyOpen>>
    /\ UNCHANGED auxVars

\* The user switches terminals while the active terminal is in automatic
\* mode: the kernel switches at once, without any signal.
KSwitchAuto ==
    /\ Running
    /\ kMode = "auto"
    /\ \E t \in kAllocated \ {kActive} : kActive' = t
    /\ UNCHANGED <<kAllocated, kMode, kKd, kRelPending, kTarget, switches>>
    /\ UNCHANGED <<mainVars, hdlVars, visVars, chanVars, sigVars, hVars, envVars,
                   drawVars, ttyOpen, panicked>>
    /\ UNCHANGED auxVars

\* SIGINT: signal.NotifyContext cancels the context.
Interrupt ==
    /\ Running
    /\ ~cancelled
    /\ cancelled' = TRUE
    /\ UNCHANGED tickReady
    /\ UNCHANGED <<mainVars, hdlVars, visVars, chanVars, sigVars, hVars, kVars,
                   drawVars, ttyOpen, panicked>>
    /\ UNCHANGED auxVars

\* The ticker of time.Tick(1 * time.Second) puts a tick into its channel.
Tick ==
    /\ Running /\ pc \in {"loop", "wait"} \cup DrawPcs
    /\ ~tickReady
    /\ tickReady' = TRUE
    /\ UNCHANGED cancelled
    /\ UNCHANGED <<mainVars, hdlVars, visVars, chanVars, sigVars, hVars, kVars,
                   drawVars, ttyOpen, panicked>>
    /\ UNCHANGED auxVars

Next ==
    \/ NextFreeConsole \/ OpenTty \/ GetState \/ Activate \/ WaitActive
    \/ NewHandle \/ GetMode \/ NotifyUsr1 \/ NotifyUsr2 \/ SetVisibleTrue
    \/ SetModeProcess \/ KdSetGraphics
    \/ DevOpen \/ DevImage \/ NewDrawer
    \/ LoopVisible \/ DrawRead \/ DrawRender \/ DrawCopy
    \/ WaitCancel \/ WaitRedraw \/ WaitTick
    \/ CKdText \/ CGetMode \/ CSetModeAuto \/ CActivate \/ CWaitActive
    \/ CCloseTty \/ CCloseRedraw \/ CDisallocate
    \/ H1Recv \/ H1SetVisible \/ H1Ack
    \/ H2Recv \/ H2SetVisible \/ H2Ack \/ H2Send
    \/ KRelease \/ KAcquire \/ KSwitchAuto \/ Interrupt \/ Tick

Spec == Init /\ [][Next]_vars

(***************************************************************************)
(* The frame buffer device on its own: Open, Image, PixOffset, Close       *)
(***************************************************************************)

\* The console lease and the render loop before fbstatus() has started.
ConsoleIdle ==
    /\ ConsoleInit
    /\ kActive = Min(kAllocated)

Depths == {8, 16, 24, 32}

\* The geometries the driver may report: every small combination of visible
\* and virtual resolution, offsets, depth and grayscale field, with a buffer
\* that has the size of the virtual screen or not, and a scanline that is
\* tight or padded.
Geometries ==
    {g \in [Xres : 0..MaxRes, Yres : 0..MaxRes,
            Xres_virtual : 0..MaxRes, Yres_virtual : 0..MaxRes,
            Xoffset : 0..MaxOff, Yoffset : 0..MaxOff,
            Bits_per_pixel : Depths, Grayscale : 0..2] :
        g.Bits_per_pixel # 16 => g.Grayscale = 0}

FixedFor(g) ==
    LET bytes == g.Bits_per_pixel \div 8
        size  == g.Xres_virtual * g.Yres_virtual * bytes
    IN  [Smem_len : {size, g.Xres_virtual * g.Yres_virtual * 4 + 1},
         Line_length : {g.Xres_virtual * bytes, g.Xres_virtual * bytes + 4}]

FbInit ==
    /\ ConsoleIdle
    /\ LockInit
    /\ DeviceInit
    /\ \/ vinfo \in Geometries /\ finfo \in FixedFor(vinfo)
       \/ vinfo = ExampleVinfo /\ finfo = ExampleFinfo
    /\ PixInit
    /\ DrawerInit

\* The pixels whose offset is asked for.
PixPoints ==
    IF vinfo = ExampleVinfo THEN {<<10, 5>>}
    ELSE (0..MaxRes) \X (0..MaxRes)

\* dev, err := fb.Open("/dev/fb0")
FbOpen ==
    /\ openRet = "pending"
    /\ \E o \in OpenOutcomes : Open(o)
    /\ UNCHANGED <<finfo, vinfo, img, imgErr, closeRet, closeE1, pixQ>>
    /\ UNCHANGED <<mainVars, hdlVars, visVars, chanVars, sigVars, hVars, kVars,
                   envVars, drawVars, ttyOpen, panicked, lockVars, pixVars,
                   drawerVars>>

\* img, err := dev.Image()
FbImage ==
    /\ openRet = "dev" /\ imgErr = Pending /\ closeRet = {"pending"}
    /\ \E ioctlOk \in BOOLEAN :
        LET r == ImageResult(devMmap, finfo, vinfo, ioctlOk)
        IN  img' = r.img /\ imgErr' = r.err
    /\ UNCHANGED <<finfo, vinfo, devFd, devMmap, openRet, closeRet, closeE1, pixQ>>
    /\ UNCHANGED <<mainVars, hdlVars, visVars, chanVars, sigVars, hVars, kVars,
                   envVars, drawVars, ttyOpen, panicked, lockVars, pixVars,
                   drawerVars>>

\* img.PixOffset(x, y) on a BGR565 or BGRA surface
FbPixOffset ==
    /\ img.kind \in {"BGR565", "BGRA"} /\ closeRet = {"pending"}
    /\ \E p \in PixPoints :
        pixQ' = <<p[1], p[2], PixOffset(img, PixBytes(img), p[1], p[2])>>
    /\ UNCHANGED <<finfo, vinfo, devFd, devMmap, openRet, img, imgErr, closeRet,
                   closeE1>>
    /\ UNCHANGED <<mainVars, hdlVars, visVars, chanVars, sigVars, hVars, kVars,
                   envVars, drawVars, ttyOpen, panicked, lockVars, pixVars,
                   drawerVars>>

\* err := dev.Close()
FbClose ==
    /\ openRet = "dev" /\ imgErr # Pending /\ pixQ = <<>>
    /\ closeRet = {"pending"}
    /\ \E e1, e2 \in BOOLEAN, fdAfter \in {"open", "closed"} :
        Close(e1, e2, fdAfter)
    /\ UNCHANGED <<finfo, vinfo, openRet, img, imgErr, pixQ>>
    /\ UNCHANGED <<mainVars, hdlVars, visVars, chanVars, sigVars, hVars, kVars,
                   envVars, drawVars, ttyOpen, panicked, lockVars, pixVars,
                   drawerVars>>

FbNext == FbOpen \/ FbImage \/ FbPixOffset \/ FbClose

FbSpec == FbInit /\ [][FbNext]_vars

(***************************************************************************)
(* Handle.visibleMu: setVisible and Visible step by step                   *)
(*                                                                         *)
(* The three goroutines that touch Handle.visible, each as the sequence of *)
(* its lock, access, unlock and I/O steps: the main flow (setVisible(true) *)
(* in handleSwitches, VT_SETMODE, then Visible() and draw1 in the render   *)
(* loop) and the two signal handlers.                                      *)
(***************************************************************************)

\* Positions at which a goroutine is about to touch Handle.visible, is about
\* to unlock, or is about to make a system call or a channel operation.
AccessPcs == {"sv_store", "v_read"}

UnlockPcs == {"sv_unlock", "v_unlock"}

IoPcs == {"recv", "ioctl", "send", "setmode", "draw"}

\* The handle right after the two handler goroutines have been started.
LockSpecInit ==
    /\ ConsoleIdle
    /\ DeviceInit
    /\ vinfo = ExampleVinfo /\ finfo = ExampleFinfo
    /\ LockInit
    /\ PixInit
    /\ DrawerInit

LockFrame ==
    UNCHANGED <<mainVars, hdlVars, lastSetBy, redrawClosed, notify1, notify2,
                hVars, kVars, envVars, lastDraw, relMidDraw, ttyOpen, panicked,
                fbVars, pixVars, drawerVars>>

\* A Lock() that returns without having acquired the mutex.
MuLock_NoAcquire(p, next) ==
    /\ lpc[p] \in {"sv_lock", "v_lock"}
    /\ lpc' = [lpc EXCEPT ![p] = next]
    /\ UNCHANGED <<mu, visible, obs, usr1, usr2, redraw>>
    /\ LockFrame

\* h.visibleMu.Lock(): blocks until the mutex is free
MuLock(p, next) ==
    /\ lpc[p] \in {"sv_lock", "v_lock"}
    /\ mu = "none"
    /\ mu' = p
    /\ lpc' = [lpc EXCEPT ![p] = next]
    /\ UNCHANGED <<visible, obs, usr1, usr2, redraw>>
    /\ LockFrame

\* setVisible, Visible: h.visibleMu.Lock()
LLock ==
    \E p \in Procs :
        MuLock(p, IF lpc[p] = "sv_lock" THEN "sv_store" ELSE "v_read")

\* setVisible: h.visible = v (true from the main flow and the SIGUSR2 handler,
\* false from the SIGUSR1 handler)
LStore ==
    \E p \in Procs :
        /\ lpc[p] = "sv_store"
        /\ visible' = (p # "h1")
        /\ lpc' = [lpc EXCEPT ![p] = "sv_unlock"]
        /\ UNCHANGED <<mu, obs, usr1, usr2, redraw>>
        /\ LockFrame

\* Visible: return h.visible
LRead ==
    /\ lpc["main"] = "v_read"
    /\ obs' = visible
    /\ lpc' = [lpc EXCEPT !["main"] = "v_unlock"]
    /\ UNCHANGED <<mu, visible, usr1, usr2, redraw>>
    /\ LockFrame

\* setVisible, Visible: the deferred h.visibleMu.Unlock(), run on return
LUnlock ==
    \E p \in Procs :
        /\ lpc[p] \in UnlockPcs
        /\ mu' = "none"
        /\ lpc' = [lpc EXCEPT ![p] =
                     IF p = "main"
                     THEN (IF lpc[p] = "sv_unlock" THEN "setmode" ELSE "draw")
                     ELSE "ioctl"]
        /\ UNCHANGED <<visible, obs, usr1, usr2, redraw>>
        /\ LockFrame

\* handleSwitches: the VT_SETMODE ioctl after setVisible(true)
LSetMode ==
    /\ lpc["main"] = "setmode"
    /\ lpc' = [lpc EXCEPT !["main"] = "v_lock"]
    /\ UNCHANGED <<mu, visible, obs, usr1, usr2, redraw>>
    /\ LockFrame

\* fbstatus: draw1 when Visible() returned true, then the select, which
\* takes a pending redraw notification
LDraw ==
    /\ lpc["main"] = "draw"
    /\ redraw' = 0
    /\ lpc' = [lpc EXCEPT !["main"] = "v_lock"]
    /\ UNCHANGED <<mu, visible, obs, usr1, usr2>>
    /\ LockFrame

\* for range usr1 / for range usr2: the handler receives a signal
LRecv ==
    \E p \in {"h1", "h2"} :
        /\ lpc[p] = "recv"
        /\ IF p = "h1"
           THEN usr1 > 0 /\ usr1' = usr1 - 1 /\ UNCHANGED usr2
           ELSE usr2 > 0 /\ usr2' = usr2 - 1 /\ UNCHANGED usr1
        /\ lpc' = [lpc EXCEPT ![p] = "sv_lock"]
        /\ UNCHANGED <<mu, visible, obs, redraw>>
        /\ LockFrame

\* unix.IoctlSetInt(fd, VT_RELDISP, ...) of either handler
LIoctl ==
    \E p \in {"h1", "h2"} :
        /\ lpc[p] = "ioctl"
        /\ lpc' = [lpc EXCEPT ![p] = IF p = "h1" THEN "recv" ELSE "send"]
        /\ UNCHANGED <<mu, visible, obs, usr1, usr2, redraw>>
        /\ LockFrame

\* select { case hdl.redraw <- struct{}{}: default: }
LSend ==
    /\ lpc["h2"] = "send"
    /\ redraw' = IF redraw < RedrawCap THEN redraw + 1 ELSE redraw
    /\ lpc' = [lpc EXCEPT !["h2"] = "recv"]
    /\ UNCHANGED <<mu, visible, obs, usr1, usr2>>
    /\ LockFrame

\* The kernel sends SIGUSR1 or SIGUSR2.
LSignal ==
    /\ \/ usr1' = Deliver(usr1) /\ UNCHANGED usr2
       \/ usr2' = Deliver(usr2) /\ UNCHANGED usr1
    /\ UNCHANGED <<mu, lpc, visible, obs, redraw>>
    /\ LockFrame

LockNext ==
    \/ LLock \/ LStore \/ LRead \/ LUnlock \/ LSetMode \/ LDraw
    \/ LRecv \/ LIoctl \/ LSend \/ LSignal

LockSpec == LockSpecInit /\ [][LockNext]_vars

(***************************************************************************)
(* The surfaces on their own: Set and At of single pixels, and the two     *)
(* specialised copy loops, on a device that has been opened and whose      *)
(* Image() has returned a BGR565 or BGRA surface.                          *)
(***************************************************************************)

\* The screens of the pixel scenarios: a virtual screen of MaxRes x MaxRes
\* with the visible resolution and the offsets anywhere.
PixGeometries ==
    {g \in Geometries :
        /\ g.Xres_virtual = MaxRes /\ g.Yres_virtual = MaxRes
        /\ g.Grayscale = 0 /\ g.Bits_per_pixel \in {16, 32}}

\* The fixed geometry of a driver whose buffer is the virtual screen, one
\* scanline after the other without padding.
TightFixed(g) ==
    [Smem_len |-> g.Xres_virtual * g.Yres_virtual * (g.Bits_per_pixel \div 8),
     Line_length |-> g.Xres_virtual * (g.Bits_per_pixel \div 8)]

\* A screen of which one pixel at the origin is visible.
UnitGeometry(bpp) ==
    [Xres |-> 1, Yres |-> 1, Xres_virtual |-> MaxRes, Yres_virtual |-> MaxRes,
     Xoffset |-> 0, Yoffset |-> 0, Bits_per_pixel |-> bpp, Grayscale |-> 0]

\* Colours set on every screen, and the channel values set on the unit
\* screen: for 16 bits every green value with every red and a few blue values
\* and with every blue and a few red values (green shares a byte with each).
ColourSamples ==
    { <<0, 0, 0, 255>>, <<248, 252, 248, 255>>, <<8, 4, 8, 255>>,
      <<168, 84, 40, 128>>, <<255, 255, 255, 255>>, <<1, 2, 3, 0>> }

Channel5 == {8 * k : k \in 0..31}

Channel5Few == {0, 8, 120, 248}

Channel6 == {4 * k : k \in 0..63}

ChannelSamples == {0, 1, 2, 127, 128, 254, 255}

UnitColours(bpp) ==
    IF bpp = 16
    THEN {<<r, g, b, 255>> : r \in Channel5, g \in Channel6, b \in Channel5Few}
         \cup {<<r, g, b, 255>> : r \in Channel5Few, g \in Channel6, b \in Channel5}
    ELSE {<<r, g, b, a>> : r \in ChannelSamples, g \in ChannelSamples,
                           b \in ChannelSamples, a \in ChannelSamples}

\* Premultiplied source colours: a few for every screen, and every pair of a
\* channel value and an alpha value for the unit screen.
SeedSamples ==
    { <<64, 64, 64, 128>>, <<255, 0, 128, 255>>, <<0, 0, 0, 0>>,
      <<10, 200, 30, 200>>, <<1, 2, 3, 3>> }

UnitSeeds == UNION {{<<c, a - c, c \div 2, a>> : c \in 0..a} : a \in 0..255}

\* The colour of the k-th pixel of a buffer rendered from seed s: the
\* channels vary from pixel to pixel and stay at or below the alpha.
Vary(s, k) ==
    << (s[1] + 8 * k) % (s[4] + 1), (s[2] + 4 * k) % (s[4] + 1),
       (s[3] + 16 * k) % (s[4] + 1), s[4] >>

\* d.buffer: image.NewRGBA(img.Bounds()), rendered from seed s.
BufferFor(i, s) ==
    NewRGBA(i.Rect, [k \in 0..(Dx(i.Rect) * Dy(i.Rect)) |-> Vary(s, k)])

\* fb.Open and Device.Image have succeeded on the screen (vinfo, finfo) and
\* returned a BGR565 or BGRA surface over a mapping filled with the byte 170.
SurfaceReady ==
    /\ devFd = "open"
    /\ devMmap = finfo.Smem_len
    /\ openRet = "dev"
    /\ imgErr = NoErr
    /\ img = ImageResult(devMmap, finfo, vinfo, TRUE).img
    /\ img.kind \in {"BGR565", "BGRA"}
    /\ closeRet = {"pending"}
    /\ closeE1 = FALSE
    /\ pixQ = <<>>
    /\ pix = [j \in 0..(devMmap - 1) |-> 170]

PixSpecInit ==
    /\ ConsoleIdle
    /\ LockInit
    /\ DrawerInit
    /\ got = NoResult
    /\ \/ /\ vinfo \in PixGeometries /\ finfo = TightFixed(vinfo)
          /\ SurfaceReady
          /\ \/ /\ arg \in [op : {"pixel"}, x : (-1)..MaxRes, y : (-1)..MaxRes,
                            c : ColourSamples]
                /\ buffer = NoBuffer
             \/ /\ arg \in [op : {"copy"}, x : {0}, y : {0}, c : SeedSamples]
                /\ buffer = BufferFor(img, arg.c)
       \/ /\ \E bpp \in {16, 32} :
                /\ vinfo = UnitGeometry(bpp)
                /\ finfo = TightFixed(vinfo)
                /\ SurfaceReady
                /\ \/ /\ arg \in [op : {"pixel"}, x : {0}, y : {0},
                                  c : UnitColours(bpp)]
                      /\ buffer = NoBuffer
                   \/ /\ bpp = 16
                      /\ arg \in [op : {"copy"}, x : {0}, y : {0}, c : UnitSeeds]
                      /\ buffer = BufferFor(img, arg.c)

PixFrame ==
    UNCHANGED <<mainVars, hdlVars, visVars, chanVars, sigVars, hVars, kVars,
                envVars, drawVars, ttyOpen, panicked, fbVars, lockVars,
                drawerVars, buffer, arg>>

\* img.Set(x, y, c): SetNRGBA on a BGR565 surface, SetRGBA on a BGRA surface
PSet ==
    /\ arg.op = "pixel" /\ got.op = "none"
    /\ LET r == SetPixel(img, pix, arg.x, arg.y, arg.c)
       IN  /\ pix' = r.pix
           /\ got' = [NoResult EXCEPT !.op = "set", !.c = arg.c,
                                      !.panic = r.panic, !.touched = r.touched]
    /\ PixFrame

\* img.At(x, y), on the untouched mapping or after the Set
PAt ==
    /\ arg.op = "pixel" /\ got.op \in {"none", "set"} /\ ~got.panic
    /\ LET r == AtPixel(img, pix, arg.x, arg.y)
       IN  got' = [NoResult EXCEPT !.op = IF got.op = "set" THEN "set_at" ELSE "at",
                                   !.c = r.c, !.panic = r.panic,
                                   !.touched = r.touched]
    /\ UNCHANGED pix
    /\ PixFrame

\* copyRGBAtoBGR565(x, d.buffer); got records the conversion of the first
\* source pixel.
PCopy565 ==
    /\ arg.op = "copy" /\ got.op = "none" /\ img.kind = "BGR565"
    /\ LET r == copyRGBAtoBGR565(img, pix, buffer)
           s == Vary(arg.c, 0)
           sc == {Scale(s[k], s[4]) : k \in 1..3}
       IN  /\ pix' = r.pix
           /\ got' = [NoResult EXCEPT
                        !.op = "copy565", !.c = NRGBAOf(s), !.panic = r.panic,
                        !.overflow = s[4] \notin {0, 255}
                                     /\ \E e \in sc : e.overflow,
                        !.shifted = IF s[4] \in {0, 255} THEN 0
                                    ELSE CHOOSE v \in {e.shifted : e \in sc} :
                                           \A e \in sc : e.shifted <= v]
    /\ PixFrame

\* copyRGBAtoBGRA(x, d.buffer)
PCopyBGRA ==
    /\ arg.op = "copy" /\ got.op = "none" /\ img.kind = "BGRA"
    /\ LET r == copyRGBAtoBGRA(img, pix, buffer)
       IN  /\ pix' = r.pix
           /\ got' = [NoResult EXCEPT !.op = "copyBGRA", !.c = Vary(arg.c, 0),
                                      !.panic = r.panic]
    /\ PixFrame

PixNext == PSet \/ PAt \/ PCopy565 \/ PCopyBGRA

PixSpec == PixSpecInit /\ [][PixNext]_vars

(***************************************************************************)
(* The drawer on its own: newStatusDrawer and a sequence of draw1 calls,   *)
(* on a surface of the device or on a plain RGBA image as in TestDraw.     *)
(***************************************************************************)

\* The screens of the drawer scenarios, colour and grayscale.
DrawGeometries ==
    {g \in Geometries :
        /\ g.Xres_virtual = MaxRes /\ g.Yres_virtual = MaxRes
        /\ g.Grayscale \in {0, 1} /\ g.Bits_per_pixel \in {16, 32}}

\* image.NewRGBA(image.Rect(0, 0, w, h)) for the resolutions of TestDraw.
TestImages ==
    {[kind |-> "RGBA", Stride |-> 4 * s[1], Rect |-> Rect(0, 0, s[1], s[2])] :
        s \in {<<800, 600>>, <<1024, 768>>, <<1920, 1080>>, <<2560, 1440>>,
               <<3840, 2160>>}}

DrawSpecInit ==
    /\ ConsoleIdle
    /\ LockInit
    /\ DrawerInit
    /\ arg = NoArg /\ got = NoResult /\ buffer = NoBuffer
    /\ \/ /\ vinfo \in DrawGeometries /\ finfo = TightFixed(vinfo)
          /\ devFd = "open"
          /\ devMmap = finfo.Smem_len
          /\ openRet = "dev"
          /\ imgErr = NoErr
          /\ img = ImageResult(devMmap, finfo, vinfo, TRUE).img
          /\ img # Nil
          /\ closeRet = {"pending"} /\ closeE1 = FALSE /\ pixQ = <<>>
          /\ pix = [j \in 0..(devMmap - 1) |-> 170]
       \/ /\ vinfo = ExampleVinfo /\ finfo = ExampleFinfo
          /\ devFd = "none" /\ devMmap = -1 /\ openRet = "pending"
          /\ imgErr = Pending
          /\ img \in TestImages
          /\ closeRet = {"pending"} /\ closeE1 = FALSE /\ pixQ = <<>>
          /\ pix = <<>>

DrawFrame ==
    UNCHANGED <<mainVars, hdlVars, visVars, chanVars, sigVars, hVars, kVars,
                envVars, drawVars, ttyOpen, panicked, fbVars, lockVars,
                arg, got>>

\* bgcolor := color.RGBA{R: 50, G: 50, B: 50, A: 255}
BgColor == <<50, 50, 50, 255>>

\* drawer, err := newStatusDrawer(img): decoding the logo, parsing a font or
\* opening a status file may fail; on success the buffer has the bounds of
\* the image and the scrollback is make([][][]string, 10).
NewStatusDrawer ==
    /\ drawRet = "none" /\ last = <<>>
    /\ \E ok \in BOOLEAN :
        IF ok
        THEN /\ last' = [k \in 1..ScrollbackLen |-> 0]
             /\ buffer' = IF img.kind = "RGBA" THEN [NoBuffer EXCEPT !.Rect = img.Rect,
                                                                   !.Stride = img.Stride]
                          ELSE BufferFor(img, BgColor)
             /\ UNCHANGED drawRet
        ELSE /\ drawRet' = "newStatusDrawer"
             /\ UNCHANGED <<last, buffer>>
    /\ UNCHANGED <<slowPathNotified, slowLogs, draws, copyPath, pix>>
    /\ DrawFrame

\* The scrollback update of draw1 that appends without discarding.
Scroll_Grow(l, row) == l \o <<row>>

\* draw1: d.last[idx] = d.last[idx+1] for all but the last slot, then
\* d.last[len(d.last)-1] = lastrow
Scroll(l, row) ==
    [k \in 1..Len(l) |-> IF k = Len(l) THEN row ELSE l[k + 1]]

\* The copy at the end of draw1 that takes the generic path for no surface.
CopyPathOf_Always565(i) == "BGR565"

\* switch x := d.img.(type): the copy routine draw1 uses for the surface i
CopyPathOf(i) ==
    IF i.kind = "BGR565" THEN "BGR565"
    ELSE IF i.kind = "BGRA" THEN "BGRA"
    ELSE "generic"

\* A draw1 that logs the fallback warning on every draw that takes the
\* generic path.
Draw1_WarnsEveryDraw ==
    /\ last # <<>> /\ drawRet \in {"none", "nil"}
    /\ draws < MaxDraws
    /\ \E ok \in BOOLEAN :
        IF ~ok
        THEN /\ drawRet' = "error"
             /\ copyPath' = "none"
             /\ UNCHANGED <<last, buffer, pix, slowPathNotified, slowLogs, draws>>
        ELSE \E seed \in SeedSamples :
            LET b == IF img.kind = "RGBA" THEN buffer ELSE BufferFor(img, seed)
                path == CopyPathOf(img)
                r == IF path = "BGR565" THEN copyRGBAtoBGR565(img, pix, b)
                     ELSE IF path = "BGRA" THEN copyRGBAtoBGRA(img, pix, b)
                     ELSE [pix |-> pix, panic |-> FALSE]
            IN  /\ draws' = draws + 1
                /\ last' = Scroll(last, draws + 1)
                /\ buffer' = b
                /\ copyPath' = path
                /\ slowLogs' = IF path = "generic" THEN slowLogs + 1 ELSE slowLogs
                /\ slowPathNotified' = (slowPathNotified \/ path = "generic")
                /\ pix' = r.pix
                /\ drawRet' = IF r.panic THEN "panic" ELSE "nil"
    /\ DrawFrame

\* err := drawer.draw1(ctx).  A failed Seek or ReadAll of a status file
\* returns the error before anything is drawn.  Otherwise the scrollback
\* moves on by the row of this draw (its number), the buffer is rendered from
\* some seed, and the buffer is copied by the routine for the surface; the
\* bytes the library's draw.Draw writes on the generic path, and the pixels of
\* the TestDraw images, are not modelled.
Draw1 ==
    /\ last # <<>> /\ drawRet \in {"none", "nil"}
    /\ draws < MaxDraws
    /\ \E ok \in BOOLEAN :
        IF ~ok
        THEN /\ drawRet' = "error"
             /\ copyPath' = "none"
             /\ UNCHANGED <<last, buffer, pix, slowPathNotified, slowLogs, draws>>
        ELSE \E seed \in SeedSamples :
            LET b == IF img.kind = "RGBA" THEN buffer ELSE BufferFor(img, seed)
                path == CopyPathOf(img)
                r == IF path = "BGR565" THEN copyRGBAtoBGR565(img, pix, b)
                     ELSE IF path = "BGRA" THEN copyRGBAtoBGRA(img, pix, b)
                     ELSE [pix |-> pix, panic |-> FALSE]
            IN  /\ draws' = draws + 1
                /\ last' = Scroll(last, draws + 1)
                /\ buffer' = b
                /\ copyPath' = path
                /\ slowLogs' = IF path = "generic" /\ ~slowPathNotified
                               THEN slowLogs + 1 ELSE slowLogs
                /\ slowPathNotified' = (slowPathNotified \/ path = "generic")
                /\ pix' = r.pix
                /\ drawRet' = IF r.panic THEN "panic" ELSE "nil"
    /\ DrawFrame

DrawNext == NewStatusDrawer \/ Draw1

DrawSpec == DrawSpecInit /\ [][DrawNext]_vars

(***************************************************************************)
(* Properties                                                              *)
(***************************************************************************)

\* C1: every call of Handle.Cleanup attempts all six teardown steps (text
\* mode, uninstalling the handshake, switching back, closing the terminal
\* file, closing the redraw channel, deallocating the terminal), even when
\* an earlier step failed.
C1_AllStepsAttempted ==
    (pc = "returned" /\ cleanupCalls = 1) =>
        {"KDSETMODE_TEXT", "VT_GETMODE", "VT_ACTIVATE", "close_tty",
         "close_redraw", "open_tty0"} \subseteq Range(cleanupOps)

\* C2: once LeaseForGraphics has succeeded, Cleanup is called exactly once
\* before fbstatus returns, on every path; it is never called twice and
\* never without a lease.
C2_CleanupExactlyOnce ==
    /\ cleanupCalls <= 1
    /\ (leaseRet # "hdl" => cleanupCalls = 0)
    /\ (cleanupCalls = 1 => pc \in CleanupPcs \cup {"returned"})
    /\ (pc = "returned" /\ leaseRet = "hdl" =>
            cleanupCalls = 1 /\ Len(cleanupOps) > 0)

C2_Witness ==
    /\ pc = "returned" /\ leaseRet = "hdl" /\ cleanupCalls = 1
    /\ err = "Image"

\* C3: when a step of LeaseForGraphics fails, that step is the last one
\* issued, the steps before it are the regular ones in their order, and the
\* caller gets no handle and a non-nil error.
C3_LeaseFailureAborts ==
    failedStep # "none" =>
        /\ leaseRet = "nil"
        /\ err = failedStep
        /\ pc = "returned"
        /\ IsPrefix(leaseOps, LeaseOrder)
        /\ leaseOps[Len(leaseOps)] = failedStep
        /\ cleanupCalls = 0

C3_Witness ==
    /\ leaseRet = "nil"
    /\ failedStep = "KDSETMODE_GRAPHICS"
    /\ kMode = "process"

\* C4 as stated: a LeaseForGraphics that succeeds has issued its operations
\* in the order of LeaseOrder, and the visibility flag is true when it returns.
C4_Original ==
    pc = "F_open" => (leaseOps = LeaseOrder /\ visible)

\* C4 amended: a LeaseForGraphics that succeeds has issued its operations in
\* the order of LeaseOrder (the flag is set to true before VT_SETMODE); when
\* it returns the flag is true unless the release handler has set it to
\* false since.
C4_Amended ==
    /\ IsPrefix(leaseOps, LeaseOrder)
    /\ (leaseRet = "hdl" => leaseOps = LeaseOrder)
    /\ (pc = "F_open" => (visible \/ lastSetBy = "rel"))

C4_Witness ==
    /\ pc = "F_open" /\ leaseOps = LeaseOrder
    /\ visible /\ kMode = "process" /\ kKd = "graphics"

\* C5: a Cleanup in which no step fails issues its operations in the order
\* of CleanupOrder, and VT_DISALLOCATE is never issued before the wait for
\* the previous terminal has succeeded.
C5_CleanupOrder ==
    /\ IsPrefix(cleanupOps, CleanupOrder)
    /\ (pc = "returned" /\ cleanupCalls = 1 /\ cleanupErr = "none" =>
            cleanupOps = CleanupOrder)
    /\ ("VT_DISALLOCATE" \in Range(cleanupOps) => switchBackConfirmed)

C5_Witness ==
    /\ pc = "returned" /\ cleanupErr = "none"
    /\ cleanupOps = CleanupOrder
    /\ switchBackConfirmed

\* C6: in every run of the release handler, setVisible(false) comes before
\* the VT_RELDISP acknowledgement, and no step of the handler changes the
\* handle's terminal numbers.
C6_ReleaseSetsBeforeAck ==
    [][ /\ (h1pc = "set" /\ h1pc' # "set" => h1pc' = "ack" /\ ~visible' /\ h1set')
        /\ (h1pc = "ack" /\ h1pc' # "ack" => h1set)
        /\ (h1pc \in {"recv", "set", "ack"} /\ h1pc' # h1pc =>
                UNCHANGED <<hdlVt, hdlPrevVT>>) ]_vars

C6_Witness ==
    /\ h1pc = "recv" /\ usr1 = 0
    /\ lastSetBy = "rel" /\ ~visible
    /\ switches > 0 /\ ~kRelPending /\ kActive = hdlPrevVT
    /\ hdlPrevVT # 0 /\ pc = "wait"

\* C7 as stated: the redraw channel never holds more than one notification;
\* after two or more runs of the acquire handler without a receive by the
\* loop, the flag is true and exactly one notification is pending; the send
\* never blocks.
C7_Original ==
    /\ redraw <= RedrawCap
    /\ (acqRuns >= 2 => (visible /\ redraw = 1))
    /\ (Running /\ h2pc = "send" => ENABLED H2Send)

\* C7 amended: as C7, but the flag is true only as long as the release
\* handler has not set it to false after the acquire handler's last run.
C7_Amended ==
    /\ redraw <= RedrawCap
    /\ (acqRuns >= 2 => (redraw = 1 /\ (visible \/ lastSetBy = "rel")))
    /\ (Running /\ h2pc = "send" => ENABLED H2Send)

C7_Witness ==
    /\ acqRuns >= 2 /\ redraw = 1 /\ visible
    /\ h2pc = "recv" /\ pc \in DrawPcs \cup {"wait"}

\* C8: draw1 starts only from the loop head with Visible() = true, an
\* iteration with Visible() = false goes straight to the wait, and the
\* state of the frame only changes in an iteration that observed true.
C8_DrawOnlyWhenVisible ==
    [][ /\ (pc' \in DrawPcs /\ pc \notin DrawPcs => pc = "loop" /\ visible /\ obs')
        /\ (pc = "loop" /\ pc' # "loop" /\ ~visible =>
                pc' = "wait" /\ ~obs' /\ lastDraw' = lastDraw)
        /\ (lastDraw' # lastDraw => obs') ]_vars

C8_Witness ==
    pc = "wait" /\ ~obs /\ lastDraw = "copied" /\ ~visible

\* C9: a draw1 that got past its file reads is copied to the device
\* whatever the visibility flag has become meanwhile, and the release
\* handler's steps never wait for the main flow.
C9_InFlightFrameCompletes ==
    /\ (pc \in DrawPcs => lastDraw = "inflight")
    /\ (pc = "wait" /\ obs => lastDraw = "copied")
    /\ (Running /\ h1pc = "set" => ENABLED H1SetVisible)
    /\ (Running /\ h1pc = "ack" => ENABLED H1Ack)

C9_Witness ==
    /\ pc = "wait" /\ obs /\ relMidDraw
    /\ ~visible /\ lastSetBy = "rel" /\ lastDraw = "copied"

\* C10 as stated: once the context is cancelled, the next wait leaves
\* through the cancellation branch and fbstatus returns the cancellation
\* error, calling Cleanup.
C10_Original ==
    [][ cancelled /\ pc = "wait" /\ pc' # "wait" =>
            pc' = "C_kdtext" /\ err' = "canceled" ]_vars

\* C10 amended: once the context is cancelled a wait never blocks; it leaves
\* through the cancellation branch whenever neither a redraw notification
\* nor a tick is ready as well; the cancellation error is returned only
\* from that branch, and Cleanup is called on that return.
C10_Amended ==
    /\ [](Running /\ cancelled /\ pc = "wait" => ENABLED WaitCancel)
    /\ [][ /\ (cancelled /\ pc = "wait" /\ pc' # "wait"
                 /\ redraw = 0 /\ ~tickReady =>
                    pc' = "C_kdtext" /\ err' = "canceled" /\ cleanupCalls' = 1)
           /\ (err' = "canceled" /\ err # "canceled" =>
                    cancelled /\ pc = "wait" /\ pc' = "C_kdtext"
                    /\ cleanupCalls' = 1) ]_vars

C10_Witness ==
    /\ pc = "returned" /\ err = "canceled" /\ cancelled
    /\ cleanupCalls = 1 /\ cleanupErr = "none"

\* C11: every read and write of Handle.visible (setVisible from the main flow
\* and from both handlers, Visible from the render loop) is made by the
\* goroutine that holds visibleMu, which it holds until its deferred unlock,
\* and no goroutine holds visibleMu while it is at an ioctl, a channel
\* operation or a draw.
C11_LockDiscipline ==
    \A p \in Procs :
        /\ lpc[p] \in AccessPcs \cup UnlockPcs => mu = p
        /\ lpc[p] \in IoPcs => mu # p

\* The release handler is about to store while the render loop and the
\* acquire handler both wait for the lock.
C11_Witness ==
    /\ lpc["h1"] = "sv_store" /\ mu = "h1"
    /\ lpc["main"] = "v_lock" /\ lpc["h2"] = "sv_lock"

\* C12: prevVT is the terminal VT_GETSTATE reported as active, read before
\* VT_ACTIVATE of the new terminal was issued; once the handle exists no step
\* changes it, and the VT_ACTIVATE of Cleanup activates exactly that terminal.
C12_PrevVT ==
    /\ [](hdlPrevVT # 0 => hdlPrevVT = stActive)
    /\ [][/\ (pc = "L_getstate" /\ pc' = "L_activate")
              => (stActive' = kActive /\ "VT_ACTIVATE" \notin Range(leaseOps'))
          /\ hdlPrevVT # 0 => hdlPrevVT' = hdlPrevVT
          /\ (pc = "C_activate" /\ pc' = "C_waitactive")
              => kActive' = hdlPrevVT]_vars

\* Cleanup has switched back to a previous terminal that is not the leased
\* one, after the leased one had been active.
C12_Witness ==
    /\ pc = "C_waitactive" /\ hdlPrevVT # hdlVt /\ kActive = hdlPrevVT
    /\ "VT_WAITACTIVE" \in Range(leaseOps)

\* C13: Device.Close attempts the descriptor close whatever munmap returned;
\* when both fail it returns the descriptor-close error, and the munmap error
\* is still part of what the caller gets back.
C13_CloseContract ==
    closeRet # {"pending"} =>
        /\ devFd # "none"
        /\ closeE1 => "munmap" \in closeRet

\* C14: once fb.Open has succeeded, fbstatus does not return before the
\* mapping is released and the descriptor is closed.
C14_DeviceClosedOnExit ==
    (pc = "returned" /\ openRet = "dev") => (devMmap = -1 /\ devFd = "closed")

\* The geometry the driver reports is consistent for a depth of bytes bytes
\* per pixel: the buffer has the size of the virtual screen and the visible
\* resolution placed at the offsets lies inside the virtual screen.
SizeMatches(bytes) ==
    vinfo.Xres_virtual * vinfo.Yres_virtual * bytes = finfo.Smem_len

VisibleInsideVirtual ==
    /\ vinfo.Xoffset + vinfo.Xres <= vinfo.Xres_virtual
    /\ vinfo.Yoffset + vinfo.Yres <= vinfo.Yres_virtual

\* Device.Image has returned and its geometry query had succeeded.
ImageAnswered == imgErr # Pending /\ imgErr.kind # "FBIOGET_VSCREENINFO"

\* C15: fb.Open returns either a device whose descriptor is open and whose
\* mapping has the length Smem_len of the fixed geometry, or an error with
\* nothing mapped and no descriptor left open.
C15_OpenAllOrNothing ==
    /\ (openRet = "dev" /\ closeRet = {"pending"})
        => (devFd = "open" /\ devMmap = finfo.Smem_len)
    /\ openRet \notin {"pending", "dev"}
        => (devFd # "open" /\ devMmap = -1)

\* The mapping failed after the descriptor had been opened.
C15_Witness == openRet = "mmap" /\ devFd = "closed" /\ finfo.Smem_len > 0

C17_SizeCheckFirst ==
    (/\ ImageAnswered
     /\ vinfo.Bits_per_pixel \in {16, 32}
     /\ ~SizeMatches(vinfo.Bits_per_pixel \div 8))
        => (img = Nil /\ imgErr.kind = "size")

\* The size error was returned for a geometry that fails both checks.
C17_Witness ==
    /\ imgErr.kind = "size"
    /\ ~VisibleInsideVirtual
    /\ ~In(Rect(vinfo.Xoffset, vinfo.Yoffset, vinfo.Xres, vinfo.Yres),
           Rect(0, 0, vinfo.Xres_virtual, vinfo.Yres_virtual))

\* C18: for 16 and 32 bits per pixel Device.Image returns a geometry error
\* and no surface whenever the (non-empty) visible resolution placed at the
\* offsets is not inside the virtual screen.
C18_ContainmentEnforced ==
    (/\ ImageAnswered
     /\ vinfo.Bits_per_pixel \in {16, 32}
     /\ vinfo.Xres > 0 /\ vinfo.Yres > 0
     /\ ~VisibleInsideVirtual)
        => (img = Nil /\ imgErr.kind \in {"size", "contained"})

\* C19: the rectangle of a surface Device.Image returns has its origin at
\* (Xoffset, Yoffset), the visible x resolution as its width and the visible
\* y resolution as its height (for a visible resolution that is not empty).
C19_SurfaceRect ==
    (img # Nil /\ vinfo.Xres > 0 /\ vinfo.Yres > 0) =>
        /\ img.Rect.MinX = vinfo.Xoffset /\ img.Rect.MinY = vinfo.Yoffset
        /\ Dx(img.Rect) = vinfo.Xres /\ Dy(img.Rect) = vinfo.Yres

\* C20: PixOffset(x, y) of a BGR565 or BGRA surface is
\* (y - Rect.Min.Y) * Line_length + (x - Rect.Min.X) * bytes per pixel, with
\* the scanline length of the fixed geometry; on the 800x600 16-bit screen
\* with a scanline of 1600 bytes the offset of (10, 5) is 5*1600 + 10*2.
C20_PixOffset ==
    pixQ # <<>> =>
        /\ pixQ[3] = (pixQ[2] - img.Rect.MinY) * finfo.Line_length
                     + (pixQ[1] - img.Rect.MinX)
                       * (IF vinfo.Bits_per_pixel = 32 THEN 4 ELSE 2)
        /\ vinfo = ExampleVinfo => pixQ = <<10, 5, 5 * 1600 + 10 * 2>>

\* An offset was computed below the first row of a surface whose scanline is
\* longer than its visible width.
C20_Witness ==
    /\ pixQ # <<>> /\ pixQ[2] > img.Rect.MinY /\ pixQ[1] > img.Rect.MinX
    /\ img.Stride > Dx(img.Rect) * PixBytes(img)
    /\ Dx(img.Rect) > 0

(***************************************************************************)
(* Pixel access and the copy loops                                         *)
(***************************************************************************)

\* The channels of c fit 5, 6 and 5 bits: the low 3 bits of red and blue and
\* the low 2 bits of green are zero.
Representable565(c) == c[1] % 8 = 0 /\ c[2] % 4 = 0 /\ c[3] % 8 = 0

\* The pixel operation asked for is on a point inside the surface.
InBounds == arg.op = "pixel" /\ PointIn(arg.x, arg.y, img.Rect)

\* C21: on the packed 16-bit surface, for every pixel inside the rectangle
\* and every colour whose channels are representable in 5/6/5 bits, At after
\* SetNRGBA returns the same red, green and blue with alpha 255.
C21_RoundTrip565 ==
    (got.op = "set_at" /\ img.kind = "BGR565" /\ InBounds
        /\ Representable565(arg.c))
    => /\ ~got.panic
       /\ got.c = <<arg.c[1], arg.c[2], arg.c[3], 255>>

C21_Witness ==
    /\ got.op = "set_at" /\ img.kind = "BGR565" /\ InBounds
    /\ arg.c = <<248, 252, 120, 255>>
    /\ got.c = <<248, 252, 120, 255>>

\* C22: on the 32-bit byte-swapped surface, for every pixel inside the
\* rectangle and every RGBA quadruple, SetRGBA stores the bytes blue, green,
\* red, alpha at the pixel's offset and At returns the colour that was set.
C22_RoundTripBGRA ==
    (got.op \in {"set", "set_at"} /\ img.kind = "BGRA" /\ InBounds)
    => /\ ~got.panic
       /\ LET o == PixOffset(img, 4, arg.x, arg.y)
          IN  <<pix[o], pix[o + 1], pix[o + 2], pix[o + 3]>>
                = <<arg.c[3], arg.c[2], arg.c[1], arg.c[4]>>
       /\ got.op = "set_at" => got.c = arg.c

C22_Witness ==
    /\ got.op = "set_at" /\ img.kind = "BGRA" /\ InBounds
    /\ arg.c = <<1, 2, 127, 254>>
    /\ got.c = <<1, 2, 127, 254>>
    /\ pix[0] = 127 /\ pix[2] = 1

\* C23: for both encodings and every point outside the rectangle, a set
\* leaves every byte of the buffer as it was, a get returns the zero colour,
\* and neither reads or writes any byte.
C23_OutsideUntouched ==
    (got.op # "none" /\ arg.op = "pixel" /\ ~PointIn(arg.x, arg.y, img.Rect))
    => /\ ~got.panic
       /\ got.touched = {}
       /\ \A j \in DOMAIN pix : pix[j] = 170
       /\ got.op \in {"at", "set_at"} => got.c = ZeroColour

C23_Witness ==
    /\ got.op = "set_at" /\ arg.op = "pixel"
    /\ ~Empty(img.Rect) /\ ~PointIn(arg.x, arg.y, img.Rect)
    /\ arg.x >= 0 /\ arg.y >= 0
    /\ arg.c = <<255, 255, 255, 255>>
    /\ got.c = ZeroColour

\* C24: the specialised 16-bit copy writes, for every pixel of the
\* destination, the two bytes the generic path writes: the source pixel
\* converted by color.NRGBAModel and packed by SetNRGBA.
C24_SameAsGeneric ==
    got.op = "copy565"
    => \A x \in img.Rect.MinX..(img.Rect.MaxX - 1),
          y \in img.Rect.MinY..(img.Rect.MaxY - 1) :
         LET o == PixOffset(img, 2, x, y)
         IN  <<pix[o], pix[o + 1]>>
               = Pack565(NRGBAModelConvert(BufferAt(buffer, x, y)))

\* C25: after the specialised 32-bit copy, for every pixel of the
\* destination's rectangle At returns the source pixel, whatever the stride.
C25_CopyBGRA ==
    got.op = "copyBGRA"
    => \A x \in img.Rect.MinX..(img.Rect.MaxX - 1),
          y \in img.Rect.MinY..(img.Rect.MaxY - 1) :
         AtPixel(img, pix, x, y).c = BufferAt(buffer, x, y)

\* C26: in the 16-bit copy a source pixel with alpha 255 keeps its channels,
\* one with alpha 0 becomes all zero, and one with partial alpha a has each
\* channel c <= a replaced by ((c * 257) * 65535 / (a * 257)) >> 8, computed
\* in uint32 without overflow and never above 255; a = 128 with
\* r = g = b = 64 gives a value within 1 of 128.  The expected value is
\* written with the common factor 257 cancelled, which leaves the quotient
\* as it is.
C26_Unpremultiply ==
    got.op = "copy565"
    => LET s == Vary(arg.c, 0)
           a == s[4]
       IN  /\ a = 255 => got.c = <<s[1], s[2], s[3], 255>>
           /\ a = 0 => got.c = ZeroColour
           /\ (a \notin {0, 255} /\ \A k \in 1..3 : s[k] <= a)
              => /\ ~got.overflow
                 /\ got.shifted <= 255
                 /\ \A k \in 1..3 :
                      got.c[k] = ((s[k] * 65535) \div a) \div 256
                 /\ got.c[4] = a
           /\ s = <<64, 64, 64, 128>>
              => \A k \in 1..3 : got.c[k] \in 127..129

C26_Witness ==
    /\ got.op = "copy565"
    /\ arg.c = <<64, 64, 64, 128>>
    /\ got.c = <<127, 127, 127, 128>>
    /\ ~got.overflow

(***************************************************************************)
(* The render loop and the drawer                                          *)
(***************************************************************************)

\* C27: when draw1 has returned an error, fbstatus has returned that error
\* through the deferred Cleanup and is not in the loop any more, so that no
\* further frame is drawn.
C27_NoRetry ==
    lastDraw = "error"
    => /\ err = "draw1"
       /\ pc \in CleanupPcs \cup {"returned"}
       /\ cleanupCalls = 1

C27_Witness ==
    /\ lastDraw = "error"
    /\ pc = "returned"
    /\ err = "draw1"
    /\ cleanupCalls = 1

\* draw1 has been called on a destination that is neither BGR565 nor BGRA.
DrewOnOther ==
    /\ img.kind \notin {"BGR565", "BGRA"}
    /\ drawRet \in {"nil", "error", "panic"}

HandlerStep == h1pc' # h1pc \/ h2pc' # h2pc

\* C29: a step of a signal handler leaves the drawing buffer, the device
\* surface, the scrollback rows, the frame in progress and the handle's
\* terminal numbers unchanged.
C29_HandlersFrame ==
    [][HandlerStep
       => UNCHANGED <<buffer, pix, img, last, lastDraw, hdlVt, hdlPrevVT>>]_vars

C29_Witness ==
    /\ relMidDraw
    /\ pc \in DrawPcs
    /\ lastDraw = "inflight"
    /\ hdlPrevVT # hdlVt

\* C30: the scrollback always has 10 slots, and after k draws they hold the
\* rows of the most recent min(k, 10) draws in the order of the draws, the
\* newest in the last slot, with the slots before them still empty.
C30_Scrollback ==
    last # <<>>
    => /\ Len(last) = ScrollbackLen
       /\ \A k \in 1..ScrollbackLen :
            last[k] = IF draws - (ScrollbackLen - k) >= 1
                      THEN draws - (ScrollbackLen - k) ELSE 0

C30_Witness ==
    /\ draws = ScrollbackLen + 2
    /\ last[1] = 3
    /\ last[ScrollbackLen] = ScrollbackLen + 2

\* The destination needs the generic fallback of draw1.
NeedsFallback == img.kind \notin {"BGR565", "BGRA"}

\* C31: on a destination that needs the generic fallback the warning has been
\* logged exactly once as soon as one draw has copied and never again, the
\* notified flag is set from that draw on, and every draw that returns nil
\* has taken the generic path; on the two specialised surfaces the warning
\* is never logged.
C31_WarnedOnce ==
    /\ NeedsFallback
       => /\ slowLogs = (IF draws >= 1 THEN 1 ELSE 0)
          /\ slowPathNotified = (draws >= 1)
          /\ (drawRet = "nil" => copyPath = "generic")
    /\ ~NeedsFallback => (slowLogs = 0 /\ ~slowPathNotified)

C31_Witness ==
    /\ img.kind = "Gray16"
    /\ draws = 3
    /\ slowLogs = 1
    /\ slowPathNotified
    /\ copyPath = "generic"

\* C32: no handler step issues its VT_RELDISP ioctl after Cleanup has closed
\* the terminal file, and none reaches the send on the redraw channel after
\* Cleanup has closed the channel.
C32_NoUseAfterCleanup ==
    [][/\ (h1pc = "ack" /\ h1pc' # h1pc) => ttyOpen
       /\ (h2pc = "ack" /\ h2pc' # h2pc) => ttyOpen
       /\ (h2pc = "send" /\ (h2pc' # h2pc \/ panicked' # panicked))
          => ~redrawClosed]_vars

\* The last switch signal the kernel sent was the release request: one has
\* been sent (switches > 0) and it is either still waiting for its
\* acknowledgement or has been completed and no acquire followed.  Holds
\* while the terminal is in process-controlled mode.
LastSignalRelease ==
    switches > 0 /\ (kRelPending \/ kActive # hdlVt)

\* Both handlers wait in their receive and neither signal channel holds a
\* signal, with the handshake installed and the process running.
HandlersQuiet ==
    /\ Running /\ kMode = "process"
    /\ h1pc = "recv" /\ h2pc = "recv"
    /\ usr1 = 0 /\ usr2 = 0

\* C33: whenever both handlers are idle and no switch signal is pending, the
\* visibility flag is true exactly when the last signal the kernel sent was
\* not a release request.
C33_FlagFollowsKernel ==
    HandlersQuiet => (visible <=> ~LastSignalRelease)

\* The program with its release handler scheduled fairly: a step of the
\* SIGUSR1 goroutine that stays possible is eventually taken.  Nothing is
\* assumed about the main flow or the environment.
LiveSpec ==
    /\ Init /\ [][Next]_vars
    /\ WF_vars(H1Recv) /\ WF_vars(H1SetVisible) /\ WF_vars(H1Ack)

\* C34: every release request the kernel has sent and is waiting on is
\* eventually acknowledged (the kernel stops waiting), whatever the main
\* flow does.
C34_ReleaseAcknowledged == kRelPending ~> ~kRelPending

\* C35: whenever the terminal is in process-controlled switch mode, both
\* signals are registered with signal.Notify and both handler goroutines are
\* running, so no release or acquire signal is ever sent to a process without
\* a handler for it (the only abnormal end of the process is the send on the
\* closed redraw channel).
C35_HandlersBeforeProcessMode ==
    /\ kMode = "process"
       => /\ notify1 /\ notify2
          /\ h1pc # "off" /\ h2pc # "off"
    /\ panicked => redrawClosed

\* A release signal and an acquire signal have both been delivered to their
\* registered channels.
C35_Witness ==
    /\ kMode = "process" /\ notify1 /\ notify2
    /\ kRelPending /\ usr1 = 1 /\ usr2 = 1

\* LeaseForGraphics has returned an error from a step after it opened the
\* terminal.
LeaseFailedAfterOpen ==
    /\ pc = "returned" /\ leaseRet = "nil"
    /\ failedStep \in {"VT_GETSTATE", "VT_ACTIVATE", "VT_WAITACTIVE", "VT_GETMODE",
                       "VT_SETMODE_PROCESS", "KDSETMODE_GRAPHICS"}

\* C36: a LeaseForGraphics that failed after it opened the terminal has
\* closed the terminal file, has no signal handler registered any more and
\* has not left the terminal in process-controlled switch mode.
C36_FailedLeaseReleases ==
    LeaseFailedAfterOpen
    => /\ ~ttyOpen
       /\ ~notify1 /\ ~notify2
       /\ kMode # "process"

\* The pixel whose offset was computed lies inside the surface's rectangle.
PixInRect ==
    /\ img.Rect.MinX <= pixQ[1] /\ pixQ[1] < img.Rect.MaxX
    /\ img.Rect.MinY <= pixQ[2] /\ pixQ[2] < img.Rect.MaxY

\* C37: on every surface Device.Image returned, the bytes of every pixel
\* inside the surface's rectangle lie inside the mapped buffer:
\* 0 <= PixOffset(x, y) and PixOffset(x, y) + bytes per pixel <= len(mmap).
C37_PixelInsideBuffer ==
    (pixQ # <<>> /\ PixInRect)
    => /\ 0 <= pixQ[3]
       /\ pixQ[3] + PixBytes(img) <= devMmap

\* The offsets of the bytes of the pixels of the surface's rectangle.
RectBytes ==
    UNION {{PixOffset(img, 2, x, y), PixOffset(img, 2, x, y) + 1} :
             x \in img.Rect.MinX..(img.Rect.MaxX - 1),
             y \in img.Rect.MinY..(img.Rect.MaxY - 1)}

\* C38: on a destination with at least one pixel the specialised 16-bit
\* copy never indexes the source or the destination buffer out of range, and
\* changes no byte of the destination that does not belong to a pixel of its
\* rectangle, also when the rectangle's minimum corner is not (0, 0).
C38_CopyStaysInRect ==
    (got.op = "copy565" /\ ~Empty(img.Rect))
    => /\ ~got.panic
       /\ \A j \in DOMAIN pix : j \notin RectBytes => pix[j] = 170

====
